---- MODULE Spec2Model ----
(***************************************************************************)
(* Color-Wheel: the palette state machine of the useColorWheel hook, its   *)
(* lock, the synthesis of the wheel bitmap and the probe of it, the        *)
(* harmony-angle calculator and the degree arithmetic they rest on, the    *)
(* artist descriptors, the colour conversions, the linear-light mixer and  *)
(* the tint ladder.                                                        *)
(*                                                                         *)
(* Numbers.  Angles are whole degrees.  Saturation, lightness and the      *)
(* radial fraction f are whole per-cents (0..100 for 0..1).  Radii are in  *)
(* offscreen pixels.  Strings are sequences of tokens (TLA+ strings), so   *)
(* that concatenation, padStart and toLowerCase are computed, not assumed. *)
(*                                                                         *)
(* Sampling.  A probe point is given in polar form [theta, r] around the   *)
(* wheel centre.  The colour read back from the offscreen bitmap at that   *)
(* point is the radial profile of wheelColorAt evaluated there; probe      *)
(* radii are the two ends of the colour band (f = 0 and f = 1, where       *)
(* Math.pow(f, p) = f exactly), one radius outside the band and one        *)
(* outside the raster.  The choice of the pixel under a point, and the     *)
(* bytes of the bitmap, are modelled in offscreen coordinates further      *)
(* down (sampleAtCanvasXY, SpecRaster).                                    *)
(***************************************************************************)
EXTENDS Integers, Sequences, FiniteSets, TLC

VARIABLES
  palette,  \* useState<PaletteSwatch[]>: the swatches, newest first
  sample,   \* useState<Sample | null>: the last probe, Null when there is none
  locked,   \* useState(false): the probe is locked
  lockPt,   \* useState<Point | null>: the point the probe is locked at
  pointerPt, \* useState<Point | null>: the point of the last pointer move
  raster,   \* the offscreen bitmap: the bytes of its ImageData (data), the
            \* pixels the synthesis loop has still to visit (todo), and
            \* whether offCtxRef holds the finished bitmap (ctx)
  nextId,   \* the next fresh swatch id
  nOps,     \* palette operations performed so far
  call,     \* the operation invoked last, with its arguments and, for a
            \* palette operation, the palette it was invoked on (prev)
  arg,      \* the angle handed to the pure functions
  ret       \* what the pure function invoked last returned

vars == <<palette, sample, locked, lockPt, pointerPt, raster, nextId, nOps, call, arg, ret>>

(***************************************************************************)
(* Bounds of the model.                                                    *)
(***************************************************************************)
\* palette operations performed after the initial sweep
MaxOps == 1
\* largest number of "Add sample" presses of the initial sweep
MaxFill == 25
\* pure-function inputs range over -MaxTheta..MaxTheta degrees
MaxTheta == 800
\* harmonyAngles is compared at theta + 360k for k in -MaxTurns..MaxTurns
MaxTurns == 2
\* channel values of the colour arguments: 255 * k / ChannelSteps, k = 0..ChannelSteps
ChannelSteps == 8
\* luminance arguments: k / LumSteps, k = 0..LumSteps
LumSteps == 20
\* the tintSteps option ranges over 0..MaxTintSteps
MaxTintSteps == 13

(***************************************************************************)
(* JavaScript arithmetic.                                                  *)
(***************************************************************************)
\* the % operator of JavaScript: the remainder takes the sign of the dividend
JsMod(a, b) == IF a >= 0 THEN a % b ELSE -((-a) % b)

Abs(x) == IF x < 0 THEN -x ELSE x

Min(a, b) == IF a <= b THEN a ELSE b

Max(a, b) == IF a >= b THEN a ELSE b

\* Array.prototype.slice(from, to) on a sequence (0-based, end exclusive)
Slice(s, from, to) == SubSeq(s, from + 1, Min(to, Len(s)))

\* Array.prototype.reverse
Reverse(s) == [i \in 1..Len(s) |-> s[Len(s) + 1 - i]]

\* Number.prototype.toString(10) / toFixed(0) of a non-negative integer
RECURSIVE DecStr(_)
DecStr(n) ==
  LET d == <<"0", "1", "2", "3", "4", "5", "6", "7", "8", "9">>
  IN  IF n < 10 THEN <<d[n + 1]>> ELSE DecStr(n \div 10) \o <<d[(n % 10) + 1]>>

\* String.prototype.padStart(2, '0')
PadStart2(s) == IF Len(s) < 2 THEN <<"0">> \o s ELSE s

\* String.prototype.toLowerCase on a token sequence
LowerChar(c) ==
  CASE c = "A" -> "a" [] c = "B" -> "b" [] c = "C" -> "c"
    [] c = "D" -> "d" [] c = "E" -> "e" [] c = "F" -> "f"
    [] OTHER -> c

toLowerCase(s) == [i \in 1..Len(s) |-> LowerChar(s[i])]

\* String.prototype.toUpperCase restricted to hex digits (caller-made strings)
UpperChar(c) ==
  CASE c = "a" -> "A" [] c = "b" -> "B" [] c = "c" -> "C"
    [] c = "d" -> "D" [] c = "e" -> "E" [] c = "f" -> "F"
    [] OTHER -> c

(***************************************************************************)
(* colorMath.ts                                                            *)
(***************************************************************************)
degNormNoShift(d) == JsMod(d, 360)

degNorm(d) == JsMod(JsMod(d, 360) + 360, 360)

\* clamp01 on per-cent values
clamp01(v) == Min(100, Max(0, v))

\* Number.prototype.toString(16) of one channel, padStart(2, '0')
HexByte(n) ==
  LET h == <<"0", "1", "2", "3", "4", "5", "6", "7", "8", "9",
             "a", "b", "c", "d", "e", "f">>
  IN  PadStart2(IF n < 16 THEN <<h[n + 1]>> ELSE <<h[(n \div 16) + 1], h[(n % 16) + 1]>>)

rgbToHex(r, g, b) == <<"#">> \o HexByte(r) \o HexByte(g) \o HexByte(b)

(***************************************************************************)
(* utils/harmonies.ts                                                      *)
(***************************************************************************)
HARMONY_TYPES ==
  <<"Complementary", "Split Complementary", "Analogous", "Triadic", "Tetradic">>

HarmonyType == {HARMONY_TYPES[i] : i \in 1..Len(HARMONY_TYPES)}

\* harmonyAngles with the base entry left as the caller passed it
harmonyAnglesRawBase(theta, type) ==
  LET t == degNorm(theta)
  IN  CASE type = "Complementary" ->
             <<[label |-> "Base", a |-> theta],
               [label |-> "Comp", a |-> degNorm(t + 180)]>>
        [] type = "Split Complementary" ->
             <<[label |-> "Base", a |-> theta],
               [label |-> "Split-1", a |-> degNorm(t + 180 - 30)],
               [label |-> "Split-2", a |-> degNorm(t + 180 + 30)]>>
        [] type = "Analogous" ->
             <<[label |-> "Ana-1", a |-> degNorm(t - 30)],
               [label |-> "Base", a |-> theta],
               [label |-> "Ana-2", a |-> degNorm(t + 30)]>>
        [] type = "Triadic" ->
             <<[label |-> "Tri-1", a |-> theta],
               [label |-> "Tri-2", a |-> degNorm(t + 120)],
               [label |-> "Tri-3", a |-> degNorm(t + 240)]>>
        [] type = "Tetradic" ->
             <<[label |-> "Tet-1", a |-> theta],
               [label |-> "Tet-2", a |-> degNorm(t + 60)],
               [label |-> "Tet-3", a |-> degNorm(t + 180)],
               [label |-> "Tet-4", a |-> degNorm(t + 240)]>>

\* harmonyAngles with a square tetrad (90 degree steps) and the analogous
\* pair listed after the base
harmonyAnglesSwapped(theta, type) ==
  LET t == degNorm(theta)
  IN  CASE type = "Complementary" ->
             <<[label |-> "Base", a |-> t],
               [label |-> "Comp", a |-> degNorm(t + 180)]>>
        [] type = "Split Complementary" ->
             <<[label |-> "Base", a |-> t],
               [label |-> "Split-1", a |-> degNorm(t + 180 - 30)],
               [label |-> "Split-2", a |-> degNorm(t + 180 + 30)]>>
        [] type = "Analogous" ->
             <<[label |-> "Base", a |-> t],
               [label |-> "Ana-1", a |-> degNorm(t - 30)],
               [label |-> "Ana-2", a |-> degNorm(t + 30)]>>
        [] type = "Triadic" ->
             <<[label |-> "Tri-1", a |-> t],
               [label |-> "Tri-2", a |-> degNorm(t + 120)],
               [label |-> "Tri-3", a |-> degNorm(t + 240)]>>
        [] type = "Tetradic" ->
             <<[label |-> "Tet-1", a |-> t],
               [label |-> "Tet-2", a |-> degNorm(t + 90)],
               [label |-> "Tet-3", a |-> degNorm(t + 180)],
               [label |-> "Tet-4", a |-> degNorm(t + 270)]>>

harmonyAngles(theta, type) ==
  LET t == degNorm(theta)
  IN  CASE type = "Complementary" ->
             <<[label |-> "Base", a |-> t],
               [label |-> "Comp", a |-> degNorm(t + 180)]>>
        [] type = "Split Complementary" ->
             <<[label |-> "Base", a |-> t],
               [label |-> "Split-1", a |-> degNorm(t + 180 - 30)],
               [label |-> "Split-2", a |-> degNorm(t + 180 + 30)]>>
        [] type = "Analogous" ->
             <<[label |-> "Ana-1", a |-> degNorm(t - 30)],
               [label |-> "Base", a |-> t],
               [label |-> "Ana-2", a |-> degNorm(t + 30)]>>
        [] type = "Triadic" ->
             <<[label |-> "Tri-1", a |-> t],
               [label |-> "Tri-2", a |-> degNorm(t + 120)],
               [label |-> "Tri-3", a |-> degNorm(t + 240)]>>
        [] type = "Tetradic" ->
             \* Rectangle tetrad: 0, 60, 180, 240
             <<[label |-> "Tet-1", a |-> t],
               [label |-> "Tet-2", a |-> degNorm(t + 60)],
               [label |-> "Tet-3", a |-> degNorm(t + 180)],
               [label |-> "Tet-4", a |-> degNorm(t + 240)]>>

(***************************************************************************)
(* utils/artistDescriptors.ts                                              *)
(***************************************************************************)
HUE_NAMES ==
  <<"Red", "Red-Orange", "Orange", "Yellow-Orange", "Yellow", "Yellow-Green",
    "Green", "Blue-Green", "Cyan", "Blue-Cyan", "Blue", "Blue-Violet",
    "Violet", "Red-Violet", "Magenta", "Rose">>

\* degNorm on an angle given in quarters of a degree (a multiple of 0.25 is
\* a binary fraction, so % and + are exact on it)
degNormQ(d4) == JsMod(JsMod(d4, 4 * 360) + 4 * 360, 4 * 360)

\* arr[i] of a JavaScript array: undefined outside 0..length-1
Index(arr, i) == IF i + 1 \in DOMAIN arr THEN arr[i + 1] ELSE "undefined"

\* hueName without the final % 16
hueNameQNoWrap(theta4) ==
  LET t   == degNormQ(theta4)
      idx == (t + 45) \div 90
  IN  Index(HUE_NAMES, idx)

\* hueName of an angle in quarters of a degree:
\* floor((t + 11.25) / 22.5) % 16, numerator and denominator scaled by 4
hueNameQ(theta4) ==
  LET t   == degNormQ(theta4)
      idx == ((t + 45) \div 90) % 16
  IN  Index(HUE_NAMES, idx)

\* hueName of a whole number of degrees
hueName(theta) == hueNameQ(4 * theta)

\* HUE_LABELS: the hue-family labels drawDecor writes on the wheel, each at
\* its angle (degrees) and at its fraction of the band (per-cent)
HUE_LABELS ==
  <<[text |-> "Red",          angle |-> 0,   radius |-> 92],
    [text |-> "Yellow",       angle |-> 60,  radius |-> 92],
    [text |-> "Cyan",         angle |-> 180, radius |-> 92],
    [text |-> "Blue",         angle |-> 240, radius |-> 92],
    [text |-> "Blue-Green",   angle |-> 200, radius |-> 78],
    [text |-> "Yellow-Green", angle |-> 120, radius |-> 78],
    [text |-> "Red-Violet",   angle |-> 315, radius |-> 78],
    [text |-> "Red-Orange",   angle |-> 345, radius |-> 78]>>

\* temperatureLabel with the warm range closed at 120 degrees
temperatureLabelWarmTo120(theta4) ==
  LET t    == degNormQ(theta4)
      warm == (t >= 4 * 315 \/ t <= 4 * 120) /\ ~(t >= 4 * 75 /\ t < 4 * 105)
      cool == t >= 4 * 150 /\ t < 4 * 285
  IN  IF warm THEN "Warm" ELSE IF cool THEN "Cool" ELSE "Neutral"

\* temperatureLabel with the cool range starting where the warm range ends
temperatureLabelNoGap(theta4) ==
  LET t    == degNormQ(theta4)
      warm == (t >= 4 * 315 \/ t < 4 * 120) /\ ~(t >= 4 * 75 /\ t < 4 * 105)
      cool == t >= 4 * 120 /\ t < 4 * 285
  IN  IF warm THEN "Warm" ELSE IF cool THEN "Cool" ELSE "Neutral"

\* temperatureLabel of an angle in quarters of a degree
temperatureLabel(theta4) ==
  LET t    == degNormQ(theta4)
      warm == (t >= 4 * 315 \/ t < 4 * 120) /\ ~(t >= 4 * 75 /\ t < 4 * 105)
      cool == t >= 4 * 150 /\ t < 4 * 285
  IN  IF warm THEN "Warm" ELSE IF cool THEN "Cool" ELSE "Neutral"

(***************************************************************************)
(* utils/colorConversions.ts: hslToRgb.  h in degrees, s and l in per-cent.*)
(* Every intermediate is kept as an exact integer over the common          *)
(* denominator HslDen = 100 * 100 * 60 * 2.                                *)
(***************************************************************************)
HslDen == 100 * 100 * 60 * 2

\* Math.round(v * 255) for v = n / HslDen: floor(v * 255 + 1/2)
Round255(n) == (n * 255 * 2 + HslDen) \div (2 * HslDen)

\* hslToRgb without the final clamp of each channel to 0..255
hslToRgbNoClamp(h, s, l) ==
  LET Cn == (100 - Abs(2 * l - 100)) * s
      hm == JsMod(h, 360)
      Xn == Cn * (60 - Abs(JsMod(hm, 120) - 60))
      C  == Cn * 120
      X  == Xn * 2
      m  == l * 100 * 60 * 2 - Cn * 60
      r1 == IF 0 <= hm /\ hm < 60 THEN C
            ELSE IF 60 <= hm /\ hm < 120 THEN X
            ELSE IF 120 <= hm /\ hm < 180 THEN 0
            ELSE IF 180 <= hm /\ hm < 240 THEN 0
            ELSE IF 240 <= hm /\ hm < 300 THEN X
            ELSE C
      g1 == IF 0 <= hm /\ hm < 60 THEN X
            ELSE IF 60 <= hm /\ hm < 120 THEN C
            ELSE IF 120 <= hm /\ hm < 180 THEN C
            ELSE IF 180 <= hm /\ hm < 240 THEN X
            ELSE 0
      b1 == IF 0 <= hm /\ hm < 60 THEN 0
            ELSE IF 60 <= hm /\ hm < 120 THEN 0
            ELSE IF 120 <= hm /\ hm < 180 THEN X
            ELSE IF 180 <= hm /\ hm < 240 THEN C
            ELSE IF 240 <= hm /\ hm < 300 THEN C
            ELSE X
  IN  [r |-> Round255(r1 + m), g |-> Round255(g1 + m), b |-> Round255(b1 + m)]

hslToRgb(h, s, l) ==
  LET Cn == (100 - Abs(2 * l - 100)) * s          \* C  over 100 * 100
      hm == JsMod(h, 360)                         \* hh over 60
      Xn == Cn * (60 - Abs(JsMod(hm, 120) - 60))  \* X  over 100 * 100 * 60
      C  == Cn * 120
      X  == Xn * 2
      m  == l * 100 * 60 * 2 - Cn * 60            \* l - C / 2
      r1 == IF 0 <= hm /\ hm < 60 THEN C
            ELSE IF 60 <= hm /\ hm < 120 THEN X
            ELSE IF 120 <= hm /\ hm < 180 THEN 0
            ELSE IF 180 <= hm /\ hm < 240 THEN 0
            ELSE IF 240 <= hm /\ hm < 300 THEN X
            ELSE C
      g1 == IF 0 <= hm /\ hm < 60 THEN X
            ELSE IF 60 <= hm /\ hm < 120 THEN C
            ELSE IF 120 <= hm /\ hm < 180 THEN C
            ELSE IF 180 <= hm /\ hm < 240 THEN X
            ELSE 0
      b1 == IF 0 <= hm /\ hm < 60 THEN 0
            ELSE IF 60 <= hm /\ hm < 120 THEN 0
            ELSE IF 120 <= hm /\ hm < 180 THEN X
            ELSE IF 180 <= hm /\ hm < 240 THEN C
            ELSE IF 240 <= hm /\ hm < 300 THEN C
            ELSE X
  IN  [r |-> Min(255, Max(0, Round255(r1 + m))),
       g |-> Min(255, Max(0, Round255(g1 + m))),
       b |-> Min(255, Max(0, Round255(b1 + m)))]

(***************************************************************************)
(* Fractions.  The value of a floating-point expression over 8-bit         *)
(* channels is kept as the exact fraction n / d in lowest terms with       *)
(* d > 0; 0 / 0 is NaN and x / 0 is Infinity, as in JavaScript.            *)
(***************************************************************************)
RECURSIVE GCD(_, _)
GCD(a, b) == IF b = 0 THEN a ELSE GCD(b, a % b)

NaN == [nan |-> TRUE]

Infinity == [inf |-> TRUE]

IsFinite(a) == a # NaN /\ a # Infinity

\* the number n / d
Frac(n, d) ==
  IF d = 0 THEN (IF n = 0 THEN NaN ELSE Infinity)
  ELSE LET g  == GCD(Abs(n), Abs(d))
           sg == IF d < 0 THEN -1 ELSE 1
       IN  [n |-> sg * (n \div g), d |-> sg * (d \div g)]

Num(k) == [n |-> k, d |-> 1]

FAdd(a, b) == IF ~IsFinite(a) \/ ~IsFinite(b) THEN NaN ELSE Frac(a.n * b.d + b.n * a.d, a.d * b.d)

FSub(a, b) == IF ~IsFinite(a) \/ ~IsFinite(b) THEN NaN ELSE Frac(a.n * b.d - b.n * a.d, a.d * b.d)

FMul(a, b) == IF ~IsFinite(a) \/ ~IsFinite(b) THEN NaN ELSE Frac(a.n * b.n, a.d * b.d)

FDiv(a, b) == IF ~IsFinite(a) \/ ~IsFinite(b) THEN NaN ELSE Frac(a.n * b.d, a.d * b.n)

FAbs(a) == IF ~IsFinite(a) THEN a ELSE [n |-> Abs(a.n), d |-> a.d]

\* a < b and a <= b; every comparison with NaN is false
FLess(a, b) == IsFinite(a) /\ IsFinite(b) /\ a.n * b.d < b.n * a.d

FLeq(a, b) == IsFinite(a) /\ IsFinite(b) /\ a.n * b.d <= b.n * a.d

\* Math.max and Math.min
FMax(a, b) == IF ~IsFinite(a) \/ ~IsFinite(b) THEN NaN ELSE IF FLess(a, b) THEN b ELSE a

FMin(a, b) == IF ~IsFinite(a) \/ ~IsFinite(b) THEN NaN ELSE IF FLess(b, a) THEN b ELSE a

\* a % m for a whole m > 0, with the sign of a
FMod(a, m) == IF ~IsFinite(a) THEN NaN ELSE Frac(JsMod(a.n, m * a.d), a.d)

\* Math.round: floor(a + 1/2)
FRound(a) == (2 * a.n + a.d) \div (2 * a.d)

\* clamp01 on a fraction
clamp01Frac(v) == FMin(Num(1), FMax(Num(0), v))

(***************************************************************************)
(* utils/colorConversions.ts on fractions                                  *)
(***************************************************************************)
\* hslToRgb for h, s, l given as fractions (h in degrees, s and l in [0,1])
hslToRgbFrac(h, s, l) ==
  LET C  == FMul(FSub(Num(1), FAbs(FSub(FMul(Num(2), l), Num(1)))), s)
      hh == FDiv(FMod(h, 360), Num(60))
      X  == FMul(C, FSub(Num(1), FAbs(FSub(FMod(hh, 2), Num(1)))))
      in(lo) == FLeq(Num(lo), hh) /\ FLess(hh, Num(lo + 1))
      r1 == IF in(0) THEN C ELSE IF in(1) THEN X ELSE IF in(2) THEN Num(0)
            ELSE IF in(3) THEN Num(0) ELSE IF in(4) THEN X ELSE C
      g1 == IF in(0) THEN X ELSE IF in(1) THEN C ELSE IF in(2) THEN C
            ELSE IF in(3) THEN X ELSE Num(0)
      b1 == IF in(0) THEN Num(0) ELSE IF in(1) THEN Num(0) ELSE IF in(2) THEN X
            ELSE IF in(3) THEN C ELSE IF in(4) THEN C ELSE X
      m  == FSub(l, FDiv(C, Num(2)))
      r  == FRound(FMul(FAdd(r1, m), Num(255)))
      g  == FRound(FMul(FAdd(g1, m), Num(255)))
      b  == FRound(FMul(FAdd(b1, m), Num(255)))
  IN  [r |-> Min(255, Max(0, r)), g |-> Min(255, Max(0, g)), b |-> Min(255, Max(0, b))]

\* rgbToHsl with the hue sectors of green and blue exchanged (+ 4 and + 2)
rgbToHslSectors(r0, g0, b0) ==
  LET r   == Frac(r0, 255)
      g   == Frac(g0, 255)
      b   == Frac(b0, 255)
      max == FMax(FMax(r, g), b)
      min == FMin(FMin(r, g), b)
      d   == FSub(max, min)
      h6  == IF max = r THEN FMod(FDiv(FSub(g, b), d), 6)
             ELSE IF max = g THEN FAdd(FDiv(FSub(b, r), d), Num(4))
             ELSE FAdd(FDiv(FSub(r, g), d), Num(2))
      h60 == FMul(h6, Num(60))
      h   == IF d # Num(0)
             THEN (IF FLess(h60, Num(0)) THEN FAdd(h60, Num(360)) ELSE h60)
             ELSE Num(0)
      l   == FDiv(FAdd(max, min), Num(2))
      s   == IF d = Num(0) THEN Num(0)
             ELSE FDiv(d, FSub(Num(1), FAbs(FSub(FMul(Num(2), l), Num(1)))))
  IN  [h |-> h, s |-> s, l |-> l]

rgbToHsl(r0, g0, b0) ==
  LET r   == Frac(r0, 255)
      g   == Frac(g0, 255)
      b   == Frac(b0, 255)
      max == FMax(FMax(r, g), b)
      min == FMin(FMin(r, g), b)
      d   == FSub(max, min)
      h6  == IF max = r THEN FMod(FDiv(FSub(g, b), d), 6)
             ELSE IF max = g THEN FAdd(FDiv(FSub(b, r), d), Num(2))
             ELSE FAdd(FDiv(FSub(r, g), d), Num(4))
      h60 == FMul(h6, Num(60))
      h   == IF d # Num(0)
             THEN (IF FLess(h60, Num(0)) THEN FAdd(h60, Num(360)) ELSE h60)
             ELSE Num(0)
      l   == FDiv(FAdd(max, min), Num(2))
      s   == IF d = Num(0) THEN Num(0)
             ELSE FDiv(d, FSub(Num(1), FAbs(FSub(FMul(Num(2), l), Num(1)))))
  IN  [h |-> h, s |-> s, l |-> l]

\* rgbToHsv without the wrap of a negative hue
rgbToHsvNoWrap(r0, g0, b0) ==
  LET r   == Frac(r0, 255)
      g   == Frac(g0, 255)
      b   == Frac(b0, 255)
      max == FMax(FMax(r, g), b)
      min == FMin(FMin(r, g), b)
      d   == FSub(max, min)
      h6  == IF max = r THEN FMod(FDiv(FSub(g, b), d), 6)
             ELSE IF max = g THEN FAdd(FDiv(FSub(b, r), d), Num(2))
             ELSE FAdd(FDiv(FSub(r, g), d), Num(4))
      h   == IF d # Num(0) THEN FMul(h6, Num(60)) ELSE Num(0)
      v   == max
      s   == IF max = Num(0) THEN Num(0) ELSE FDiv(d, max)
  IN  [h |-> h, s |-> s, v |-> v]

rgbToHsv(r0, g0, b0) ==
  LET r   == Frac(r0, 255)
      g   == Frac(g0, 255)
      b   == Frac(b0, 255)
      max == FMax(FMax(r, g), b)
      min == FMin(FMin(r, g), b)
      d   == FSub(max, min)
      h6  == IF max = r THEN FMod(FDiv(FSub(g, b), d), 6)
             ELSE IF max = g THEN FAdd(FDiv(FSub(b, r), d), Num(2))
             ELSE FAdd(FDiv(FSub(r, g), d), Num(4))
      h60 == FMul(h6, Num(60))
      h   == IF d # Num(0)
             THEN (IF FLess(h60, Num(0)) THEN FAdd(h60, Num(360)) ELSE h60)
             ELSE Num(0)
      v   == max
      s   == IF max = Num(0) THEN Num(0) ELSE FDiv(d, max)
  IN  [h |-> h, s |-> s, v |-> v]

rgbToHwb(r, g, b) ==
  LET rr  == Frac(r, 255)
      gg  == Frac(g, 255)
      bb  == Frac(b, 255)
      max == FMax(FMax(rr, gg), bb)
      min == FMin(FMin(rr, gg), bb)
      hsv == rgbToHsv(r, g, b)
      w   == min
      bl  == FSub(Num(1), max)
  IN  [h |-> hsv.h, w |-> w, b |-> bl]

Million == 1000000

\* k >= 1 - 1e-12, that is 1 - k <= 1e-12: for a = 1 - k = n / d >= 0 this
\* is n * 10^12 <= d, that is n <= floor(floor(d / 10^6) / 10^6)
NearOne(k) ==
  LET a == FSub(Num(1), k)
  IN  IsFinite(a) /\ a.n <= (a.d \div Million) \div Million

\* rgbToCmyk without the early return for black
rgbToCmykNoGuard(r, g, b) ==
  LET rr == Frac(r, 255)
      gg == Frac(g, 255)
      bb == Frac(b, 255)
      k  == FSub(Num(1), FMax(FMax(rr, gg), bb))
      c  == FDiv(FSub(FSub(Num(1), rr), k), FSub(Num(1), k))
      m  == FDiv(FSub(FSub(Num(1), gg), k), FSub(Num(1), k))
      y  == FDiv(FSub(FSub(Num(1), bb), k), FSub(Num(1), k))
  IN  [c |-> clamp01Frac(c), m |-> clamp01Frac(m), y |-> clamp01Frac(y), k |-> clamp01Frac(k)]

rgbToCmyk(r, g, b) ==
  LET rr == Frac(r, 255)
      gg == Frac(g, 255)
      bb == Frac(b, 255)
      k  == FSub(Num(1), FMax(FMax(rr, gg), bb))
      c  == FDiv(FSub(FSub(Num(1), rr), k), FSub(Num(1), k))
      m  == FDiv(FSub(FSub(Num(1), gg), k), FSub(Num(1), k))
      y  == FDiv(FSub(FSub(Num(1), bb), k), FSub(Num(1), k))
  IN  IF NearOne(k) THEN [c |-> Num(0), m |-> Num(0), y |-> Num(0), k |-> Num(1)]
      ELSE [c |-> clamp01Frac(c), m |-> clamp01Frac(m), y |-> clamp01Frac(y),
            k |-> clamp01Frac(k)]

\* contrastRatio dividing its first argument by its second
contrastRatioUnordered(L1, L2) ==
  FDiv(FAdd(L1, Frac(5, 100)), FAdd(L2, Frac(5, 100)))

contrastRatio(L1, L2) ==
  LET a == FMax(L1, L2)
      b == FMin(L1, L2)
  IN  FDiv(FAdd(a, Frac(5, 100)), FAdd(b, Frac(5, 100)))

(***************************************************************************)
(* utils/colorConversions.ts: linear light.  A linear-light value in [0,1] *)
(* is a whole number of LinScale-ths, rounded down.  Math.pow is not       *)
(* computable in integers, so the two transfer functions are tabulated     *)
(* from their own formulas: srgbToLinear at its 256 arguments, and         *)
(* linearToSrgb, which is a non-decreasing step function of L, by the      *)
(* place of each of its 255 steps.                                         *)
(***************************************************************************)
LinScale == 1000000000

\* SRGB_TO_LINEAR[u8 + 1] = floor(LinScale * v), where u = u8 / 255 and
\* v = (u <= 0.04045 ? u / 12.92 : Math.pow((u + 0.055) / 1.055, 2.4))
SRGB_TO_LINEAR ==
  <<0, 303526, 607053, 910580, 1214107, 1517634, 1821161, 2124688,
    2428215, 2731742, 3035269, 3346535, 3676507, 4024717, 4391442, 4776953,
    5181516, 5605391, 6048833, 6512090, 6995410, 7499032, 8023192, 8568125,
    9134058, 9721217, 10329823, 10960094, 11612245, 12286488, 12983032, 13702083,
    14443843, 15208514, 15996293, 16807375, 17641954, 18500220, 19382360, 20288563,
    21219010, 22173884, 23153366, 24157632, 25186859, 26241221, 27320891, 28426039,
    29556834, 30713443, 31896033, 33104766, 34339806, 35601314, 36889450, 38204371,
    39546235, 40915196, 42311410, 43735029, 45186204, 46665086, 48171824, 49706565,
    51269458, 52860647, 54480276, 56128490, 57805430, 59511238, 61246054, 63010017,
    64803266, 66625938, 68478169, 70360095, 72271850, 74213568, 76185381, 78187421,
    80219820, 82282707, 84376211, 86500462, 88655586, 90841711, 93058962, 95307466,
    97587347, 99898728, 102241733, 104616484, 107023102, 109461710, 111932427, 114435373,
    116970667, 119538427, 122138772, 124771817, 127437680, 130136476, 132868321, 135633329,
    138431615, 141263291, 144128470, 147027266, 149959789, 152926151, 155926463, 158960835,
    162029375, 165132194, 168269400, 171441100, 174647403, 177888415, 181164244, 184474994,
    187820772, 191201682, 194617830, 198069319, 201556253, 205078736, 208636870, 212230757,
    215860500, 219526199, 223227957, 226965873, 230740048, 234550582, 238397573, 242281122,
    246201326, 250158284, 254152094, 258182852, 262250657, 266355604, 270497791, 274677312,
    278894263, 283148740, 287440837, 291770649, 296138270, 300543794, 304987314, 309468922,
    313988713, 318546778, 323143209, 327778098, 332451536, 337163615, 341914424, 346704056,
    351532599, 356400144, 361306779, 366252595, 371237680, 376262122, 381326011, 386429433,
    391572477, 396755230, 401977779, 407240211, 412542613, 417885070, 423267669, 428690496,
    434153636, 439657173, 445201194, 450785782, 456411023, 462076999, 467783796, 473531496,
    479320183, 485149940, 491020849, 496932995, 502886458, 508881320, 514917665, 520995573,
    527115125, 533276404, 539479489, 545724461, 552011401, 558340389, 564711505, 571124829,
    577580440, 584078417, 590618840, 597201788, 603827338, 610495570, 617206562, 623960391,
    630757136, 637596873, 644479681, 651405637, 658374817, 665387298, 672443156, 679542469,
    686685312, 693871761, 701101891, 708375779, 715693500, 723055128, 730460740, 737910408,
    745404209, 752942216, 760524504, 768151147, 775822218, 783537791, 791297940, 799102738,
    806952257, 814846572, 822785754, 830769876, 838799011, 846873231, 854992608, 863157213,
    871367119, 879622396, 887923117, 896269353, 904661174, 913098651, 921581856, 930110858,
    938685728, 947306536, 955973353, 964686247, 973445290, 982250550, 991102097, 1000000000>>

srgbToLinear(u8) == SRGB_TO_LINEAR[u8 + 1]

\* LINEAR_TO_SRGB[k] = floor(LinScale * L), L the least value in [0,1] with
\* Math.round(clamp01(u) * 255) >= k, where
\* u = (L <= 0.0031308 ? 12.92 * L : 1.055 * Math.pow(L, 1 / 2.4) - 0.055)
LINEAR_TO_SRGB ==
  <<151763, 455290, 758817, 1062344, 1365871, 1669398, 1972925, 2276452,
    2579979, 2883506, 3188300, 3509259, 3848314, 4205748, 4581832, 4976837,
    5391024, 5824650, 6277969, 6751227, 7244668, 7758530, 8293048, 8848452,
    9424970, 10022825, 10642236, 11283421, 11946592, 12631959, 13339731, 14070112,
    14823302, 15599503, 16398909, 17221716, 18068114, 18938294, 19832442, 20750744,
    21693382, 22660538, 23652390, 24669114, 25710888, 26777882, 27870270, 28988220,
    30131901, 31301480, 32497121, 33718988, 34967242, 36242044, 37543552, 38871925,
    40227319, 41609887, 43019784, 44457162, 45922172, 47414964, 48935685, 50484484,
    52061506, 53666897, 55300801, 56963360, 58654716, 60375011, 62124383, 63902972,
    65710916, 67548350, 69415412, 71312236, 73238955, 75195704, 77182615, 79199818,
    81247444, 83325624, 85434485, 87574156, 89744765, 91946438, 94179300, 96443477,
    98739092, 101066270, 103425132, 105815802, 108238400, 110693048, 113179864, 115698969,
    118250482, 120834519, 123451199, 126100639, 128782954, 131498260, 134246673, 137028305,
    139843272, 142691686, 145573659, 148489305, 151438734, 154422057, 157439385, 160490827,
    163576493, 166696492, 169850931, 173039920, 176263564, 179521971, 182815247, 186143498,
    189506829, 192905345, 196339150, 199808349, 203313045, 206853340, 210429338, 214041140,
    217688848, 221372564, 225092389, 228848422, 232640764, 236469514, 240334772, 244236636,
    248175205, 252150576, 256162848, 260212118, 264298482, 268422037, 272582878, 276781103,
    281016805, 285290080, 289601023, 293949728, 298336288, 302760798, 307223351, 311724039,
    316262955, 320840192, 325455840, 330109992, 334802739, 339534172, 344304382, 349113458,
    353961491, 358848570, 363774784, 368740223, 373744976, 378789130, 383872775, 388995997,
    394158885, 399361525, 404604005, 409886411, 415208829, 420571347, 425974049, 431417021,
    436900349, 442424118, 447988412, 453593316, 459238914, 464925290, 470652527, 476420711,
    482229922, 488080245, 493971762, 499904556, 505878709, 511894302, 517951418, 524050138,
    530190544, 536372715, 542596734, 548862680, 555170634, 561520676, 567912886, 574347344,
    580824128, 587343318, 593904994, 600509233, 607156114, 613845716, 620578117, 627353394,
    634171626, 641032889, 647937261, 654884819, 661875640, 668909800, 675987376, 683108445,
    690273081, 697481361, 704733361, 712029156, 719368821, 726752431, 734180062, 741651787,
    749167682, 756727821, 764332277, 771981124, 779674437, 787412289, 795194753, 803021903,
    810893811, 818810550, 826772193, 834778813, 842830481, 850927270, 859069252, 867256499,
    875489082, 883767072, 892090541, 900459561, 908874201, 917334533, 925840628, 934392555,
    942990385, 951634189, 960324036, 969059996, 977842138, 986670533, 995545249>>

\* the largest k in lo..hi with LINEAR_TO_SRGB[k] <= L, or lo when there is
\* none above lo (the table is increasing)
RECURSIVE StepSearch(_, _, _)
StepSearch(L, lo, hi) ==
  IF lo = hi THEN lo
  ELSE LET mid == (lo + hi + 1) \div 2
       IN  IF L >= LINEAR_TO_SRGB[mid] THEN StepSearch(L, mid, hi)
           ELSE StepSearch(L, lo, mid - 1)

\* linearToSrgb(L): the number of steps at or below L
linearToSrgb(L) == StepSearch(L, 0, 255)

rgbToLinearRgb(r, g, b) ==
  [r |-> srgbToLinear(r), g |-> srgbToLinear(g), b |-> srgbToLinear(b)]

\* the lerp of mixLinearRGB, x + (y - x) * t, for the fraction t = t.n / t.d,
\* rounded down: with y - x = q * d + r the product (y - x) * n / d is
\* q * n + r * n / d
mixLerp(x, y, t) ==
  x + ((y - x) \div t.d) * t.n + (((y - x) % t.d) * t.n) \div t.d

\* mixLinearRGB with the two colours exchanged in the interpolation
mixLinearRGBSwapped(a, b, t) ==
  LET la == rgbToLinearRgb(a.r, a.g, a.b)
      lb == rgbToLinearRgb(b.r, b.g, b.b)
      lr == mixLerp(lb.r, la.r, t)
      lg == mixLerp(lb.g, la.g, t)
      lbVal == mixLerp(lb.b, la.b, t)
  IN  [r |-> linearToSrgb(lr), g |-> linearToSrgb(lg), b |-> linearToSrgb(lbVal)]

mixLinearRGB(a, b, t) ==
  LET la == rgbToLinearRgb(a.r, a.g, a.b)
      lb == rgbToLinearRgb(b.r, b.g, b.b)
      lr == mixLerp(la.r, lb.r, t)
      lg == mixLerp(la.g, lb.g, t)
      lbVal == mixLerp(la.b, lb.b, t)
  IN  [r |-> linearToSrgb(lr), g |-> linearToSrgb(lg), b |-> linearToSrgb(lbVal)]

(***************************************************************************)
(* utils/colorConversions.ts: CIE XYZ and the chromaticities.  X, Y and Z  *)
(* are whole multiples of 1 / XyzScale; chromaticities are exact fractions *)
(* of them.                                                                *)
(***************************************************************************)
XyzScale == 100000000

\* c7 / 10^7 times the linear value L (in units of 1 / LinScale), in units
\* of 1 / XyzScale, rounded down; the product is taken in parts that stay
\* below 2^31
MulCoef(c7, L) ==
  LET ch == c7 \div 1000
      cl == c7 % 1000
      Lh == L \div 100000
      Ll == L % 100000
  IN  ch * Lh + (ch * Ll + 100 * (cl * Lh) + (cl * Ll) \div 1000) \div 100000

rgbToXyzD65(r, g, b) ==
  LET R == srgbToLinear(r)
      G == srgbToLinear(g)
      B == srgbToLinear(b)
  IN  [X |-> MulCoef(4124564, R) + MulCoef(3575761, G) + MulCoef(1804375, B),
       Y |-> MulCoef(2126729, R) + MulCoef(7151522, G) + MulCoef(721750, B),
       Z |-> MulCoef(193339, R) + MulCoef(1191920, G) + MulCoef(9503041, B)]

\* the guard value 1e-12 in units of 1 / XyzScale, rounded down: a sum of
\* X, Y, Z is at most 1e-12 when it is no unit at all
Tiny == 0

\* xyzToXyY with zeros in place of NaN for a vanishing sum
xyzToXyYZero(xyz) ==
  LET d == xyz.X + xyz.Y + xyz.Z
  IN  IF d <= Tiny THEN [x |-> Num(0), y |-> Num(0), Y |-> xyz.Y]
      ELSE [x |-> Frac(xyz.X, d), y |-> Frac(xyz.Y, d), Y |-> xyz.Y]

xyzToXyY(xyz) ==
  LET d == xyz.X + xyz.Y + xyz.Z
  IN  IF d <= Tiny THEN [x |-> NaN, y |-> NaN, Y |-> xyz.Y]
      ELSE [x |-> Frac(xyz.X, d), y |-> Frac(xyz.Y, d), Y |-> xyz.Y]

xyzToUvPrime(xyz) ==
  LET d == xyz.X + 15 * xyz.Y + 3 * xyz.Z
  IN  IF d <= Tiny THEN [u |-> NaN, v |-> NaN]
      ELSE [u |-> Frac(4 * xyz.X, d), v |-> Frac(9 * xyz.Y, d)]

\* cctMcCamyFromXy: NaN for a chromaticity that is not finite; else the
\* cubic 449 n^3 + 3525 n^2 + 6823.3 n + 5520.33 at
\* n = (x - 0.332) / (0.1858 - y), kept as the term in x and y it is
cctMcCamyFromXy(x, y) ==
  IF ~IsFinite(x) \/ ~IsFinite(y) THEN NaN
  ELSE [cubic |-> <<x, y>>]

(***************************************************************************)
(* constants/wheelModel.ts and lib/wheelRenderer.ts                        *)
(***************************************************************************)
OFF_SIZE == 1600

MODEL ==
  [cx      |-> OFF_SIZE \div 2,
   cy      |-> OFF_SIZE \div 2,
   R_color |-> (OFF_SIZE * 44) \div 100,
   R_inner |-> (OFF_SIZE * 18) \div 100]

White == [r |-> 255, g |-> 255, b |-> 255]

Black == [r |-> 0, g |-> 0, b |-> 0]

\* the value standing for null (no sample, no colour)
Null == [null |-> TRUE]

\* Math.pow(f, p) for p > 0 at the two ends of the band, f = 0 and f = 100%
PowEnds(f) == f

\* wheelColorAt at the point of angle theta and radius r around the centre
wheelColorAt(theta, r) ==
  IF r > MODEL.R_color \/ r < MODEL.R_inner THEN Null
  ELSE
    LET f  == clamp01(((r - MODEL.R_inner) * 100) \div (MODEL.R_color - MODEL.R_inner))
        s  == clamp01(PowEnds(f))
        l  == clamp01(92 - (42 * PowEnds(f)) \div 100)
        outerBoost == IF f > 84 THEN ((f - 84) * 100) \div (100 - 84) ELSE 0
        s2 == clamp01(s + (22 * outerBoost) \div 100)
        l2 == clamp01(l - (6 * outerBoost) \div 100)
        rgb == hslToRgb(theta, s2, l2)
    IN  [theta |-> theta, r |-> r, f |-> f, rgb |-> rgb]

\* the pixel renderWheelBitmap writes for the point (theta, r)
renderWheelBitmap(theta, r) ==
  LET c == wheelColorAt(theta, r)
  IN  IF c = Null THEN White ELSE c.rgb

\* readOffRgb: the r, g, b of the bitmap pixel under the point
readOffRgb(theta, r) == renderWheelBitmap(theta, r)

(***************************************************************************)
(* hooks/useColorWheel.ts: sampling                                        *)
(***************************************************************************)
\* probe points of the pointer, in polar form around the wheel centre: on
\* the inner edge of the band, on its outer edge, between the band and the
\* raster's border, and beyond the raster's corners
ProbePoints ==
  {[theta |-> 0,   r |-> MODEL.R_inner], [theta |-> 0,   r |-> MODEL.R_color],
   [theta |-> 300, r |-> MODEL.R_inner], [theta |-> 300, r |-> MODEL.R_color],
   [theta |-> 300, r |-> MODEL.cx - 40], [theta |-> 0,   r |-> 2 * MODEL.cx]}

\* sampleAtCanvas: null outside the raster (every point farther from the
\* centre than the raster's corners is outside it), else the Sample fields
\* the palette reads
sampleAtCanvas(pt) ==
  IF pt.r * pt.r > 2 * MODEL.cx * MODEL.cx THEN Null
  ELSE
    LET rgb == readOffRgb(pt.theta, pt.r)
    IN  [theta    |-> pt.theta,
         r        |-> pt.r,
         inside   |-> (pt.r <= MODEL.R_color /\ pt.r >= MODEL.R_inner),
         rgb      |-> rgb,
         hex      |-> rgbToHex(rgb.r, rgb.g, rgb.b),
         hueLabel |-> hueName(pt.theta)]

\* the part of sampleAtCanvas that analyses the r, g, b read from the
\* bitmap into XYZ, xyY, u'v' and the correlated colour temperature
sampleAnalysis(rgb) ==
  LET xyz == rgbToXyzD65(rgb.r, rgb.g, rgb.b)
      xyY == xyzToXyY(xyz)
      uvp == xyzToUvPrime(xyz)
      cct == cctMcCamyFromXy(xyY.x, xyY.y)
  IN  [rgb |-> rgb, xyz |-> xyz, xyY |-> xyY, uvp |-> uvp, cct |-> cct]

(***************************************************************************)
(* lib/wheelRenderer.ts and the probe in offscreen coordinates.  A point   *)
(* of the offscreen raster is [x, y] in quarter pixels, so that pixel      *)
(* (ix, iy) covers 4 ix <= x < 4 ix + 4 and has its centre at 4 ix + 2.    *)
(* The canvas transform is the identity (scale 1, dx = dy = 0): canvas and *)
(* offscreen coordinates coincide.                                         *)
(***************************************************************************)
\* n pixels in quarter pixels
Px(n) == 4 * n

\* the centre (ix + 0.5, iy + 0.5) of pixel (ix, iy)
PixelCentre(ix, iy) == [x |-> Px(ix) + 2, y |-> Px(iy) + 2]

\* Math.round of the coordinate v (quarter pixels): floor(v / 4 + 1/2)
MathRound(v) == (v + 2) \div 4

\* Math.floor of the coordinate v (quarter pixels)
MathFloor(v) == v \div 4

\* dx * dx + dy * dy of radiusFromXY, in sixteenths of a square pixel
RadiusSq(p) ==
  LET dx == p.x - Px(MODEL.cx)
      dy == p.y - Px(MODEL.cy)
  IN  dx * dx + dy * dy

\* radiusFromXY in quarter pixels, on the two axes through the centre, where
\* the square root is exact
radiusFromXY(p) ==
  LET dx == p.x - Px(MODEL.cx)
      dy == p.y - Px(MODEL.cy)
  IN  CASE dy = 0 -> Abs(dx)
        [] dx = 0 -> Abs(dy)

\* thetaDegFromXY on the two axes through the centre, where atan2(dx, -dy)
\* is a multiple of a quarter turn (atan2(0, -0) is pi)
thetaDegFromXY(p) ==
  LET dx == p.x - Px(MODEL.cx)
      dy == p.y - Px(MODEL.cy)
  IN  CASE dx = 0 /\ dy < 0  -> 0
        [] dx > 0 /\ dy = 0  -> 90
        [] dx = 0 /\ dy >= 0 -> 180
        [] dx < 0 /\ dy = 0  -> 270

\* isInsideWheel with the outer boundary left out
isInsideWheelOpen(p) ==
  /\ RadiusSq(p) < Px(MODEL.R_color) * Px(MODEL.R_color)
  /\ RadiusSq(p) >= Px(MODEL.R_inner) * Px(MODEL.R_inner)

\* isInsideWheel: r <= R_color && r >= R_inner, compared on the squares
isInsideWheel(p) ==
  /\ RadiusSq(p) <= Px(MODEL.R_color) * Px(MODEL.R_color)
  /\ RadiusSq(p) >= Px(MODEL.R_inner) * Px(MODEL.R_inner)

\* the r, g, b wheelColorAt computes for the points of the band the model
\* evaluates it at (the centres of the pixels near the band's edges on the
\* row below the centre line, and the probe points on the centre line): the
\* radial profile through Math.pow and Math.atan2 and hslToRgb, tabulated
\* by point
WHEEL_COLORS ==
  (<<2046, 3202>> :> [r |-> 234, g |-> 234, b |-> 234]) @@
  (<<386, 3202>> :> [r |-> 112, g |-> 0, b |-> 225]) @@
  (<<390, 3202>> :> [r |-> 113, g |-> 0, b |-> 226]) @@
  (<<4354, 3202>> :> [r |-> 234, g |-> 234, b |-> 234]) @@
  (<<6014, 3202>> :> [r |-> 112, g |-> 225, b |-> 0]) @@
  (<<6012, 3200>> :> [r |-> 113, g |-> 225, b |-> 0]) @@
  (<<6013, 3200>> :> [r |-> 113, g |-> 225, b |-> 0]) @@
  (<<6014, 3200>> :> [r |-> 112, g |-> 225, b |-> 0]) @@
  (<<6015, 3200>> :> [r |-> 112, g |-> 225, b |-> 0]) @@
  (<<6016, 3200>> :> [r |-> 112, g |-> 224, b |-> 0]) @@
  (<<384, 3200>> :> [r |-> 112, g |-> 0, b |-> 224]) @@
  (<<385, 3200>> :> [r |-> 112, g |-> 0, b |-> 225]) @@
  (<<386, 3200>> :> [r |-> 112, g |-> 0, b |-> 225]) @@
  (<<387, 3200>> :> [r |-> 113, g |-> 0, b |-> 225]) @@
  (<<388, 3200>> :> [r |-> 113, g |-> 0, b |-> 225]) @@
  (<<4352, 3200>> :> [r |-> 235, g |-> 235, b |-> 235]) @@
  (<<4353, 3200>> :> [r |-> 234, g |-> 234, b |-> 234]) @@
  (<<2047, 3200>> :> [r |-> 234, g |-> 234, b |-> 234]) @@
  (<<2048, 3200>> :> [r |-> 235, g |-> 235, b |-> 235])

\* wheelColorAt: null outside the band (compared on the squares), else the
\* r, g, b of the WheelColor
wheelColorAtXY(p) ==
  IF \/ RadiusSq(p) > Px(MODEL.R_color) * Px(MODEL.R_color)
     \/ RadiusSq(p) < Px(MODEL.R_inner) * Px(MODEL.R_inner)
  THEN Null
  ELSE WHEEL_COLORS[<<p.x, p.y>>]

\* idx with three bytes to the pixel instead of four
PixelIndexStride3(x, y) == (y * OFF_SIZE + x) * 3

\* idx = (y * OFF_SIZE + x) * 4
PixelIndex(x, y) == (y * OFF_SIZE + x) * 4

\* the four bytes one iteration of renderWheelBitmap's loop writes at idx
RenderPixel(x, y) ==
  LET c == wheelColorAtXY(PixelCentre(x, y))
  IN  IF c = Null THEN <<255, 255, 255, 255>> ELSE <<c.r, c.g, c.b, 255>>

\* the pixels of the raster the model renders: on row cy, the first and the
\* last pixel of the row and those at the four crossings of the band's edges
RasterPixels ==
  {<<x, MODEL.cy>> : x \in {0, 96, 97, 512, 1088, 1503, 1504, OFF_SIZE - 1}}

\* the bytes of img.data that belong to the rendered pixels
DataIndices == UNION {{PixelIndex(p[1], p[2]) + k : k \in 0..3} : p \in RasterPixels}

\* createImageData: transparent black
BlankData == [i \in DataIndices |-> 0]

\* img.data after the iteration for pixel p
WritePixel(data, p) ==
  LET idx == PixelIndex(p[1], p[2])
      v   == RenderPixel(p[1], p[2])
  IN  [data EXCEPT ![idx] = v[1], ![idx + 1] = v[2], ![idx + 2] = v[3], ![idx + 3] = v[4]]

\* img.data after the iterations for the pixels of S, taken in some order
RECURSIVE RenderAll(_, _)
RenderAll(data, S) ==
  IF S = {} THEN data
  ELSE LET p == CHOOSE q \in S : TRUE
       IN  RenderAll(WritePixel(data, p), S \ {p})

\* the bitmap once the initialisation effect has run: every pixel visited,
\* the image put, offCtxRef set
RenderedRaster ==
  [data |-> RenderAll(BlankData, RasterPixels), todo |-> {}, ctx |-> TRUE]

\* readOffRgb: white without a context, else the r, g, b of the pixel
readOffRgbXY(ix, iy) ==
  IF ~raster.ctx THEN White
  ELSE LET idx == PixelIndex(ix, iy)
       IN  [r |-> raster.data[idx], g |-> raster.data[idx + 1], b |-> raster.data[idx + 2]]

\* xyzToLabD65, labToLch and deltaE76 take cube and square roots; their
\* values are kept as terms in their arguments, equal for equal arguments
xyzToLabD65(xyz) == [Lab |-> xyz]

labToLch(lab) == [LCH |-> lab]

deltaE76(lab1, lab2) == [dE76 |-> <<lab1, lab2>>]

\* (sin, -cos) of an angle that is a multiple of a quarter turn; the
\* component that is 0 here is below 2e-16 in the code, which moves no
\* rounded coordinate
AxisDir(a) ==
  CASE a = 0   -> [dx |-> 0,  dy |-> -1]
    [] a = 90  -> [dx |-> 1,  dy |-> 0]
    [] a = 180 -> [dx |-> 0,  dy |-> 1]
    [] a = 270 -> [dx |-> -1, dy |-> 0]

\* the complement with its colour read on the outer edge instead of at the
\* sample's radius
complementAtRim(theta, rr, lab) ==
  LET compTheta == JsMod(theta + 180, 360)
      dir     == AxisDir(compTheta)
      compOff == [x |-> Px(MODEL.cx) + dir.dx * Px(MODEL.R_color),
                  y |-> Px(MODEL.cy) + dir.dy * Px(MODEL.R_color)]
      cix  == Max(0, Min(OFF_SIZE - 1, MathRound(compOff.x)))
      ciy  == Max(0, Min(OFF_SIZE - 1, MathRound(compOff.y)))
      crgb == readOffRgbXY(cix, ciy)
      clab == xyzToLabD65(rgbToXyzD65(crgb.r, crgb.g, crgb.b))
  IN  [theta |-> compTheta, rgb |-> crgb, hex |-> rgbToHex(crgb.r, crgb.g, crgb.b),
       lab |-> clab, lch |-> labToLch(clab), dE76 |-> deltaE76(lab, clab)]

\* the Complement sampleAtCanvas builds for a sample inside the band, of
\* angle theta, radius rr (quarter pixels) and Lab value lab
complement(theta, rr, lab) ==
  LET compTheta == JsMod(theta + 180, 360)
      dir     == AxisDir(compTheta)
      compOff == [x |-> Px(MODEL.cx) + dir.dx * rr, y |-> Px(MODEL.cy) + dir.dy * rr]
      cix  == Max(0, Min(OFF_SIZE - 1, MathRound(compOff.x)))
      ciy  == Max(0, Min(OFF_SIZE - 1, MathRound(compOff.y)))
      crgb == readOffRgbXY(cix, ciy)
      clab == xyzToLabD65(rgbToXyzD65(crgb.r, crgb.g, crgb.b))
  IN  [theta |-> compTheta, rgb |-> crgb, hex |-> rgbToHex(crgb.r, crgb.g, crgb.b),
       lab |-> clab, lch |-> labToLch(clab), dE76 |-> deltaE76(lab, clab)]

\* sampleAtCanvas at the point pt (quarter pixels): null without a context
\* or outside the raster, else the Sample; comp is Null when the Sample has
\* no Complement
sampleAtCanvasXY(pt) ==
  IF ~raster.ctx THEN Null
  ELSE IF pt.x < 0 \/ pt.y < 0 \/ pt.x >= Px(OFF_SIZE) \/ pt.y >= Px(OFF_SIZE) THEN Null
  ELSE
    LET ix     == Max(0, Min(OFF_SIZE - 1, MathRound(pt.x)))
        iy     == Max(0, Min(OFF_SIZE - 1, MathRound(pt.y)))
        rgb    == readOffRgbXY(ix, iy)
        rr     == radiusFromXY(pt)
        inside == rr <= Px(MODEL.R_color) /\ rr >= Px(MODEL.R_inner)
        theta  == thetaDegFromXY(pt)
        lab    == xyzToLabD65(rgbToXyzD65(rgb.r, rgb.g, rgb.b))
    IN  [xOff     |-> pt.x,
         yOff     |-> pt.y,
         theta    |-> theta,
         r        |-> rr,
         inside   |-> inside,
         rgb      |-> rgb,
         hex      |-> rgbToHex(rgb.r, rgb.g, rgb.b),
         hueLabel |-> hueName(theta),
         lab      |-> lab,
         comp     |-> IF inside THEN complement(theta, rr, lab) ELSE Null]

(***************************************************************************)
(* hooks/useColorWheel.ts: tints and shades                                *)
(***************************************************************************)
\* the tints memo without the clamp of tintSteps to [3, 11]
tintsUnclamped(sm, tintSteps) ==
  IF sm = Null THEN <<>>
  ELSE
    LET base  == sm.rgb
        steps == tintSteps
        half  == steps \div 2
        up    == [k \in 1..half |->
                    LET i   == half + 1 - k
                        rgb == mixLinearRGB(base, White, [n |-> i, d |-> half + 1])
                    IN  [label |-> <<"Tint ">> \o DecStr(i), rgb |-> rgb,
                         hex |-> rgbToHex(rgb.r, rgb.g, rgb.b)]]
        down  == [i \in 1..half |->
                    LET rgb == mixLinearRGB(base, Black, [n |-> i, d |-> half + 1])
                    IN  [label |-> <<"Shade ">> \o DecStr(i), rgb |-> rgb,
                         hex |-> rgbToHex(rgb.r, rgb.g, rgb.b)]]
    IN  up \o <<[label |-> <<"Base">>, rgb |-> base, hex |-> sm.hex]>> \o down

\* the tints memo with the fraction i / half instead of i / (half + 1)
tintsToWhite(sm, tintSteps) ==
  IF sm = Null THEN <<>>
  ELSE
    LET base  == sm.rgb
        steps == Max(3, Min(11, tintSteps))
        half  == steps \div 2
        up    == [k \in 1..half |->
                    LET i   == half + 1 - k
                        rgb == mixLinearRGB(base, White, [n |-> i, d |-> half])
                    IN  [label |-> <<"Tint ">> \o DecStr(i), rgb |-> rgb,
                         hex |-> rgbToHex(rgb.r, rgb.g, rgb.b)]]
        down  == [i \in 1..half |->
                    LET rgb == mixLinearRGB(base, Black, [n |-> i, d |-> half])
                    IN  [label |-> <<"Shade ">> \o DecStr(i), rgb |-> rgb,
                         hex |-> rgbToHex(rgb.r, rgb.g, rgb.b)]]
    IN  up \o <<[label |-> <<"Base">>, rgb |-> base, hex |-> sm.hex]>> \o down

\* the tints memo: the first loop runs i from half down to 1, the second
\* from 1 up to half, each pushing one step
tints(sm, tintSteps) ==
  IF sm = Null THEN <<>>
  ELSE
    LET base  == sm.rgb
        steps == Max(3, Min(11, tintSteps))
        half  == steps \div 2
        up    == [k \in 1..half |->
                    LET i   == half + 1 - k
                        rgb == mixLinearRGB(base, White, [n |-> i, d |-> half + 1])
                    IN  [label |-> <<"Tint ">> \o DecStr(i), rgb |-> rgb,
                         hex |-> rgbToHex(rgb.r, rgb.g, rgb.b)]]
        down  == [i \in 1..half |->
                    LET rgb == mixLinearRGB(base, Black, [n |-> i, d |-> half + 1])
                    IN  [label |-> <<"Shade ">> \o DecStr(i), rgb |-> rgb,
                         hex |-> rgbToHex(rgb.r, rgb.g, rgb.b)]]
    IN  up \o <<[label |-> <<"Base">>, rgb |-> base, hex |-> sm.hex]>> \o down

(***************************************************************************)
(* hooks/useColorWheel.ts: palette                                         *)
(***************************************************************************)
\* the swatch addToPalette builds from the sample; id stands for the fresh
\* string `${Date.now()}_${Math.random()...}`
SampleSwatch(sm, id) ==
  [id   |-> id,
   hex  |-> sm.hex,
   rgb  |-> sm.rgb,
   name |-> <<sm.hueLabel, " ">> \o DecStr(sm.theta) \o <<"°">>]

\* the swatches addHarmonyToPalette builds, one per harmony angle, each
\* read from the bitmap at the sample's radius; ids id, id + 1, ...
HarmonySwatches(sm, type, id) ==
  LET items == harmonyAngles(sm.theta, type)
  IN  [k \in 1..Len(items) |->
         LET it  == items[k]
             rgb == readOffRgb(it.a, sm.r)
         IN  [id   |-> id + k - 1,
              hex  |-> rgbToHex(rgb.r, rgb.g, rgb.b),
              rgb  |-> rgb,
              name |-> <<it.label, " ", hueName(it.a), " ">> \o DecStr(it.a) \o <<"°">>]]

\* the swatch addTintToPalette builds from its argument
TintSwatch(tint, id) ==
  [id |-> id, hex |-> tint.hex, rgb |-> tint.rgb, name |-> tint.label]

\* prev.some((p) => p.hex.toLowerCase() === hex.toLowerCase())
HexIn(prev, hex) ==
  \E i \in 1..Len(prev) : toLowerCase(prev[i].hex) = toLowerCase(hex)

\* the state updater of addToPalette and addTintToPalette
AddSwatchNoSlice(prev, sw) ==
  IF HexIn(prev, sw.hex) THEN prev
  ELSE <<sw>> \o prev

AddSwatchCaseSensitive(prev, sw) ==
  IF (\E i \in 1..Len(prev) : prev[i].hex = sw.hex) THEN prev
  ELSE Slice(<<sw>> \o prev, 0, 24)

AddSwatchAppend(prev, sw) ==
  IF HexIn(prev, sw.hex) THEN prev
  ELSE Slice(prev \o <<sw>>, 0, 24)

AddSwatchMoveToFront(prev, sw) ==
  Slice(<<sw>> \o SelectSeq(prev, LAMBDA p : toLowerCase(p.hex) # toLowerCase(sw.hex)), 0, 24)

AddSwatch(prev, sw) ==
  IF HexIn(prev, sw.hex) THEN prev
  ELSE Slice(<<sw>> \o prev, 0, 24)

\* the loop of addHarmonyToPalette's updater: uniq after the first n
\* entries of merged
RECURSIVE UniqLoop(_, _)
UniqLoop(merged, n) ==
  IF n = 0 THEN <<>>
  ELSE
    LET uniq == UniqLoop(merged, n - 1)
        s    == merged[n]
    IN  IF ~HexIn(uniq, s.hex)
        THEN Append(uniq, s) ELSE uniq

\* the updater with the previous palette placed before the new swatches
MergeHarmonyOldFirst(prev, newSwatches) ==
  LET merged == prev \o newSwatches
  IN  Slice(UniqLoop(merged, Len(merged)), 0, 24)

\* the state updater of addHarmonyToPalette
MergeHarmony(prev, newSwatches) ==
  LET merged == newSwatches \o prev
  IN  Slice(UniqLoop(merged, Len(merged)), 0, 24)

\* removeSwatch's updater dropping the first entry when no id matches
RemoveByIdOrFirst(prev, id) ==
  IF \E i \in 1..Len(prev) : prev[i].id = id THEN SelectSeq(prev, LAMBDA p : p.id # id)
  ELSE Slice(prev, 1, Len(prev))

\* the state updater of removeSwatch
RemoveById(prev, id) == SelectSeq(prev, LAMBDA p : p.id # id)

\* paletteCss without the reversal: numbered from the newest
ExportCssNewestFirst(pal) ==
  IF Len(pal) = 0 THEN <<>>
  ELSE
    LET lines == [i \in 1..Len(pal) |->
                    <<"  --swatch-">> \o PadStart2(DecStr(i)) \o <<": ">> \o pal[i].hex
                      \o <<"; /* ">> \o pal[i].name \o <<" */">>]
    IN  <<<<":root">>, <<"{">>>> \o lines \o <<<<"}">>>>

\* paletteCss: the empty string is the empty sequence; otherwise the text is
\* given as its sequence of lines (the pieces joined by '\n'), each palette
\* line a token sequence
ExportCss(pal) ==
  IF Len(pal) = 0 THEN <<>>
  ELSE
    LET rev   == Reverse(pal)
        lines == [i \in 1..Len(rev) |->
                    <<"  --swatch-">> \o PadStart2(DecStr(i)) \o <<": ">> \o rev[i].hex
                      \o <<"; /* ">> \o rev[i].name \o <<" */">>]
    IN  <<<<":root">>, <<"{">>>> \o lines \o <<<<"}">>>>

paletteCss == ExportCss(palette)

(***************************************************************************)
(* The state machine of the palette.                                       *)
(***************************************************************************)
\* the palette after n presses of "Add sample" from the empty palette, the
\* pointer advancing 10 degrees along the outer edge before each press
RECURSIVE Fill(_)
Fill(n) ==
  IF n = 0 THEN <<>>
  ELSE AddSwatch(Fill(n - 1),
                 SampleSwatch(sampleAtCanvas([theta |-> degNorm(10 * (n - 1)),
                                              r |-> MODEL.R_color]), n))

\* TintShadeStep values a caller hands to addTintToPalette besides the
\* ladder's own Base step: one whose hex is the upper-case spelling of the
\* colour at 0 degrees on the outer edge, and one colour that is not on the
\* wheel
CallerTints ==
  LET c == readOffRgb(0, MODEL.R_color)
      h == rgbToHex(c.r, c.g, c.b)
  IN  {[label |-> <<"Tint ", "1">>, rgb |-> c, hex |-> [i \in 1..Len(h) |-> UpperChar(h[i])]],
       [label |-> <<"Shade ", "1">>, rgb |-> [r |-> 18, g |-> 52, b |-> 86],
        hex |-> rgbToHex(18, 52, 86)]}

\* the Base step of the tint ladder of a sample
BaseTint(sm) == [label |-> <<"Base">>, rgb |-> sm.rgb, hex |-> sm.hex]

TintArgs == CallerTints \cup (IF sample = Null THEN {} ELSE {BaseTint(sample)})

\* ids handed to removeSwatch: those of the newest, the second, the third
\* and the oldest swatch, and one never issued
RemoveArgs ==
  {palette[i].id : i \in {1, 2, 3, Len(palette)} \cap DOMAIN palette} \cup {0}

\* sizes of the initial sweep: none, and those that leave at most four free
\* places (the most a harmony adds) or overflow the palette
FillSizes == {0} \cup ((24 - 4)..MaxFill)

Init ==
  /\ \E n \in FillSizes : palette = Fill(n) /\ nextId = n + 1
  /\ sample = Null
  /\ locked = FALSE
  /\ lockPt = Null
  /\ pointerPt = Null
  /\ raster = RenderedRaster
  /\ nOps = 0
  /\ call = [fn |-> "none"]
  /\ arg = 0
  /\ ret = Null

OnPointerMove(pt) ==
  /\ pointerPt' = pt
  /\ sample' = sampleAtCanvas(pt)
  /\ call' = [fn |-> "onPointerMove"]
  /\ UNCHANGED <<palette, locked, lockPt, nextId, nOps, raster, arg, ret>>

\* onPointerDown that forgets to clear the lock point when it unlocks
OnPointerDownKeepsPoint(pt) ==
  /\ IF ~locked
     THEN /\ locked' = TRUE
          /\ lockPt' = pt
          /\ sample' = sampleAtCanvas(pt)
     ELSE /\ locked' = FALSE
          /\ UNCHANGED <<lockPt, sample>>
  /\ call' = [fn |-> "onPointerDown", pt |-> pt, locked |-> locked]
  /\ UNCHANGED <<palette, pointerPt, nextId, nOps, raster, arg, ret>>

\* onPointerDown: locks at the event's point when unlocked, unlocks when
\* locked; call records the point and the value of locked it was invoked on
OnPointerDown(pt) ==
  /\ IF ~locked
     THEN /\ locked' = TRUE
          /\ lockPt' = pt
          /\ sample' = sampleAtCanvas(pt)
     ELSE /\ locked' = FALSE
          /\ lockPt' = Null
          /\ UNCHANGED sample
  /\ call' = [fn |-> "onPointerDown", pt |-> pt, locked |-> locked]
  /\ UNCHANGED <<palette, pointerPt, nextId, nOps, raster, arg, ret>>

\* keys of the keydown events
Keys == {"Escape", "Enter"}

\* the keydown handler: every key but Escape returns at once
OnKey(key) ==
  /\ IF key # "Escape"
     THEN UNCHANGED <<locked, lockPt>>
     ELSE /\ locked' = FALSE
          /\ lockPt' = Null
  /\ call' = [fn |-> "onKey", key |-> key]
  /\ UNCHANGED <<palette, sample, pointerPt, nextId, nOps, raster, arg, ret>>

Unlock ==
  /\ locked' = FALSE
  /\ lockPt' = Null
  /\ call' = [fn |-> "unlock"]
  /\ UNCHANGED <<palette, sample, pointerPt, nextId, nOps, raster, arg, ret>>

\* the stateLabel memo
stateLabel ==
  IF locked THEN "Locked"
  ELSE IF sample # Null /\ sample.inside THEN "Hover (inside wheel)" ELSE "Hover"

AddToPalette ==
  /\ nOps < MaxOps
  /\ nOps' = nOps + 1
  /\ call' = [fn |-> "addToPalette", prev |-> palette]
  /\ IF sample = Null
     THEN UNCHANGED <<palette, nextId>>
     ELSE /\ palette' = AddSwatch(palette, SampleSwatch(sample, nextId))
          /\ nextId' = nextId + 1
  /\ UNCHANGED <<sample, locked, lockPt, pointerPt, raster, arg, ret>>

\* addHarmonyToPalette without the return for a sample outside the band
AddHarmonyToPaletteOutside(type) ==
  /\ nOps < MaxOps
  /\ nOps' = nOps + 1
  /\ call' = [fn |-> "addHarmonyToPalette", type |-> type, prev |-> palette]
  /\ IF sample = Null
     THEN UNCHANGED <<palette, nextId>>
     ELSE LET newSwatches == HarmonySwatches(sample, type, nextId)
          IN  /\ palette' = MergeHarmony(palette, newSwatches)
              /\ nextId' = nextId + Len(newSwatches)
  /\ UNCHANGED <<sample, locked, lockPt, pointerPt, raster, arg, ret>>

AddHarmonyToPalette(type) ==
  /\ nOps < MaxOps
  /\ nOps' = nOps + 1
  /\ call' = [fn |-> "addHarmonyToPalette", type |-> type, prev |-> palette]
  /\ IF sample = Null \/ ~sample.inside
     THEN UNCHANGED <<palette, nextId>>
     ELSE LET newSwatches == HarmonySwatches(sample, type, nextId)
          IN  /\ palette' = MergeHarmony(palette, newSwatches)
              /\ nextId' = nextId + Len(newSwatches)
  /\ UNCHANGED <<sample, locked, lockPt, pointerPt, raster, arg, ret>>

AddTintToPalette(tint) ==
  /\ nOps < MaxOps
  /\ nOps' = nOps + 1
  /\ call' = [fn |-> "addTintToPalette", tint |-> tint, prev |-> palette]
  /\ palette' = AddSwatch(palette, TintSwatch(tint, nextId))
  /\ nextId' = nextId + 1
  /\ UNCHANGED <<sample, locked, lockPt, pointerPt, raster, arg, ret>>

RemoveSwatch(id) ==
  /\ nOps < MaxOps
  /\ nOps' = nOps + 1
  /\ call' = [fn |-> "removeSwatch", id |-> id, prev |-> palette]
  /\ palette' = RemoveById(palette, id)
  /\ UNCHANGED <<sample, locked, lockPt, pointerPt, nextId, raster, arg, ret>>

ClearPalette ==
  /\ nOps < MaxOps
  /\ nOps' = nOps + 1
  /\ call' = [fn |-> "clearPalette", prev |-> palette]
  /\ palette' = <<>>
  /\ UNCHANGED <<sample, locked, lockPt, pointerPt, nextId, raster, arg, ret>>

Next ==
  \/ \E pt \in ProbePoints : OnPointerMove(pt)
  \/ AddToPalette
  \/ \E type \in HarmonyType : AddHarmonyToPalette(type)
  \/ \E tint \in TintArgs : AddTintToPalette(tint)
  \/ \E id \in RemoveArgs : RemoveSwatch(id)
  \/ ClearPalette

Spec == Init /\ [][Next]_vars

(***************************************************************************)
(* The state machine of the whole hook: from the state the hook is         *)
(* constructed in (empty palette, no sample, unlocked), the palette        *)
(* operations together with the pointer, keyboard and unlock events.       *)
(***************************************************************************)
InitHook ==
  /\ palette = <<>>
  /\ nextId = 1
  /\ sample = Null
  /\ locked = FALSE
  /\ lockPt = Null
  /\ pointerPt = Null
  /\ raster = RenderedRaster
  /\ nOps = 0
  /\ call = [fn |-> "none"]
  /\ arg = 0
  /\ ret = Null

\* points of the pointer-down events: on the band, between the band and
\* the raster's border, and outside the raster
DownPoints ==
  {[theta |-> 300, r |-> MODEL.R_color], [theta |-> 300, r |-> MODEL.cx - 40],
   [theta |-> 0, r |-> 2 * MODEL.cx]}

NextHook ==
  \/ Next
  \/ \E pt \in DownPoints : OnPointerDown(pt)
  \/ \E key \in Keys : OnKey(key)
  \/ Unlock

SpecHook == InitHook /\ [][NextHook]_vars

(***************************************************************************)
(* The pure functions of the angle algebra, applied to an angle drawn in   *)
(* Init.                                                                   *)
(***************************************************************************)
InitMath ==
  /\ palette = <<>>
  /\ sample = Null
  /\ locked = FALSE
  /\ lockPt = Null
  /\ pointerPt = Null
  /\ raster = RenderedRaster
  /\ nextId = 1
  /\ nOps = 0
  /\ call = [fn |-> "none"]
  /\ arg \in (-MaxTheta)..MaxTheta
  /\ ret = Null

DegNormCall ==
  /\ call' = [fn |-> "degNorm"]
  /\ ret' = degNorm(arg)
  /\ UNCHANGED <<palette, sample, locked, lockPt, pointerPt, raster, nextId, nOps, arg>>

HarmonyAnglesCall(type) ==
  /\ call' = [fn |-> "harmonyAngles", type |-> type]
  /\ ret' = harmonyAngles(arg, type)
  /\ UNCHANGED <<palette, sample, locked, lockPt, pointerPt, raster, nextId, nOps, arg>>

\* hueName(arg + q / 4)
HueNameCall(q) ==
  /\ call' = [fn |-> "hueName", q |-> q]
  /\ ret' = hueNameQ(4 * arg + q)
  /\ UNCHANGED <<palette, sample, locked, lockPt, pointerPt, raster, nextId, nOps, arg>>

\* temperatureLabel(arg + q / 4)
TemperatureLabelCall(q) ==
  /\ call' = [fn |-> "temperatureLabel", q |-> q]
  /\ ret' = temperatureLabel(4 * arg + q)
  /\ UNCHANGED <<palette, sample, locked, lockPt, pointerPt, raster, nextId, nOps, arg>>

NextMath ==
  \/ DegNormCall
  \/ \E type \in HarmonyType : HarmonyAnglesCall(type)
  \/ \E q \in 0..3 : HueNameCall(q)
  \/ \E q \in 0..3 : TemperatureLabelCall(q)

SpecMath == InitMath /\ [][NextMath]_vars

(***************************************************************************)
(* The pure functions of the colour conversions, the mixer and the tint    *)
(* ladder, applied to an argument drawn in InitColor.                      *)
(***************************************************************************)
\* 8-bit channel values of the colour arguments
Channels == {(255 * k) \div ChannelSteps : k \in 0..ChannelSteps} \cup {1, 254}

\* RGB arguments: the grid of Channels, and every grey
RgbArgs ==
  {[kind |-> "rgb", r |-> r, g |-> g, b |-> b] : r \in Channels, g \in Channels, b \in Channels}
    \cup {[kind |-> "rgb", r |-> n, g |-> n, b |-> n] : n \in 0..255}

\* HSL arguments: h in whole degrees of either sign, s and l in per-cent
HslArgs ==
  {[kind |-> "hsl", h |-> h, s |-> sl[1], l |-> sl[2]] :
     h \in (-MaxTheta)..MaxTheta, sl \in {0, 50, 100} \X {0, 25, 50, 75, 100}}

\* pairs of luminances in [0,1]
LumArgs ==
  {[kind |-> "lum", L1 |-> Frac(i, LumSteps), L2 |-> Frac(j, LumSteps)] :
     i \in 0..LumSteps, j \in 0..LumSteps}

\* values of the tintSteps option
StepArgs == {[kind |-> "steps", steps |-> n] : n \in 0..MaxTintSteps}

\* pairs of chromaticity coordinates, finite or not
XyValues == {NaN, Infinity, Num(0), Frac(332, 1000), Frac(1858, 10000), Frac(1, 3)}

XyArgs == {[kind |-> "xy", x |-> x, y |-> y] : x \in XyValues, y \in XyValues}

\* second colours and fractions handed to mixLinearRGB
MixColors ==
  {White, Black, [r |-> 255, g |-> 0, b |-> 0], [r |-> 0, g |-> 255, b |-> 0],
   [r |-> 18, g |-> 52, b |-> 86]}

MixFractions == {[n |-> 0, d |-> 1], [n |-> 1, d |-> 1]}

InitColor ==
  /\ palette = <<>>
  /\ locked = FALSE
  /\ lockPt = Null
  /\ pointerPt = Null
  /\ raster = RenderedRaster
  /\ nextId = 1
  /\ nOps = 0
  /\ call = [fn |-> "none"]
  /\ ret = Null
  /\ \/ arg \in RgbArgs \cup HslArgs \cup LumArgs \cup XyArgs /\ sample = Null
     \/ arg \in StepArgs /\ sample \in {sampleAtCanvas(pt) : pt \in ProbePoints}

\* the tints memo for the sample and the tintSteps option
TintsCall ==
  /\ arg.kind = "steps"
  /\ call' = [fn |-> "tints"]
  /\ ret' = tints(sample, arg.steps)
  /\ UNCHANGED <<palette, sample, locked, lockPt, pointerPt, raster, nextId, nOps, arg>>

MixLinearRGBCall(b, t) ==
  /\ arg.kind = "rgb"
  /\ call' = [fn |-> "mixLinearRGB", b |-> b, t |-> t]
  /\ ret' = mixLinearRGB([r |-> arg.r, g |-> arg.g, b |-> arg.b], b, t)
  /\ UNCHANGED <<palette, sample, locked, lockPt, pointerPt, raster, nextId, nOps, arg>>

\* hslToRgb applied to the result of rgbToHsl
HslRoundTripCall ==
  /\ arg.kind = "rgb"
  /\ call' = [fn |-> "hslToRgb(rgbToHsl)"]
  /\ ret' = LET hsl == rgbToHsl(arg.r, arg.g, arg.b)
            IN  hslToRgbFrac(hsl.h, hsl.s, hsl.l)
  /\ UNCHANGED <<palette, sample, locked, lockPt, pointerPt, raster, nextId, nOps, arg>>

HslToRgbCall ==
  /\ arg.kind = "hsl"
  /\ call' = [fn |-> "hslToRgb"]
  /\ ret' = hslToRgb(arg.h, arg.s, arg.l)
  /\ UNCHANGED <<palette, sample, locked, lockPt, pointerPt, raster, nextId, nOps, arg>>

\* rgbToHsl, rgbToHsv and rgbToHwb of the same colour
HueSpacesCall ==
  /\ arg.kind = "rgb"
  /\ call' = [fn |-> "rgbToHsl, rgbToHsv, rgbToHwb"]
  /\ ret' = [hsl |-> rgbToHsl(arg.r, arg.g, arg.b),
             hsv |-> rgbToHsv(arg.r, arg.g, arg.b),
             hwb |-> rgbToHwb(arg.r, arg.g, arg.b)]
  /\ UNCHANGED <<palette, sample, locked, lockPt, pointerPt, raster, nextId, nOps, arg>>

RgbToCmykCall ==
  /\ arg.kind = "rgb"
  /\ call' = [fn |-> "rgbToCmyk"]
  /\ ret' = rgbToCmyk(arg.r, arg.g, arg.b)
  /\ UNCHANGED <<palette, sample, locked, lockPt, pointerPt, raster, nextId, nOps, arg>>

ContrastRatioCall ==
  /\ arg.kind = "lum"
  /\ call' = [fn |-> "contrastRatio"]
  /\ ret' = contrastRatio(arg.L1, arg.L2)
  /\ UNCHANGED <<palette, sample, locked, lockPt, pointerPt, raster, nextId, nOps, arg>>

\* the analysis of a probed colour
SampleAnalysisCall ==
  /\ arg.kind = "rgb"
  /\ call' = [fn |-> "sampleAnalysis"]
  /\ ret' = sampleAnalysis([r |-> arg.r, g |-> arg.g, b |-> arg.b])
  /\ UNCHANGED <<palette, sample, locked, lockPt, pointerPt, raster, nextId, nOps, arg>>

CctMcCamyFromXyCall ==
  /\ arg.kind = "xy"
  /\ call' = [fn |-> "cctMcCamyFromXy"]
  /\ ret' = cctMcCamyFromXy(arg.x, arg.y)
  /\ UNCHANGED <<palette, sample, locked, lockPt, pointerPt, raster, nextId, nOps, arg>>

NextColor ==
  \/ SampleAnalysisCall
  \/ CctMcCamyFromXyCall
  \/ TintsCall
  \/ \E b \in MixColors, t \in MixFractions : MixLinearRGBCall(b, t)
  \/ HslRoundTripCall
  \/ HslToRgbCall
  \/ HueSpacesCall
  \/ RgbToCmykCall
  \/ ContrastRatioCall

SpecColor == InitColor /\ [][NextColor]_vars

(***************************************************************************)
(* The synthesis of the bitmap and the probes of it.  The iterations of    *)
(* renderWheelBitmap's loop are taken in any order (row by row, as the     *)
(* loop takes them, is one of the orders); probes, which run in other      *)
(* tasks of the event loop, come before the loop starts or after the       *)
(* bitmap is put.                                                          *)
(***************************************************************************)
\* probe points on the line through the centre (y = cy), a quarter pixel
\* apart: across the raster's left border, the outer edge of the band on
\* the left, its inner edge on the left and on the right, its outer edge
\* on the right, and the raster's right border
ProbeXY ==
  {[x |-> x, y |-> Px(MODEL.cy)] :
     x \in {-1, 0} \cup (383..388) \cup (2047..2049) \cup (4351..4353)
             \cup (6012..6017) \cup {6398, 6399, 6400}}

\* points wheelColorAt and isInsideWheel are called at
WheelPoints == ProbeXY \cup {PixelCentre(p[1], p[2]) : p \in RasterPixels}

InitRaster ==
  /\ palette = <<>>
  /\ nextId = 1
  /\ sample = Null
  /\ locked = FALSE
  /\ lockPt = Null
  /\ pointerPt = Null
  /\ raster = [data |-> BlankData, todo |-> RasterPixels, ctx |-> FALSE]
  /\ nOps = 0
  /\ call = [fn |-> "none"]
  /\ arg = 0
  /\ ret = Null

\* one iteration of the loop of renderWheelBitmap
RenderStep(p) ==
  /\ p \in raster.todo
  /\ raster' = [raster EXCEPT !.data = WritePixel(raster.data, p), !.todo = raster.todo \ {p}]
  /\ call' = [fn |-> "renderWheelBitmap"]
  /\ UNCHANGED <<palette, sample, locked, lockPt, pointerPt, nextId, nOps, arg, ret>>

\* the end of the loop: putImageData, then offCtxRef.current = ctx
PutImageData ==
  /\ raster.todo = {}
  /\ ~raster.ctx
  /\ raster' = [raster EXCEPT !.ctx = TRUE]
  /\ call' = [fn |-> "putImageData"]
  /\ UNCHANGED <<palette, sample, locked, lockPt, pointerPt, nextId, nOps, arg, ret>>

\* a pointer move at pt
ProbeAt(pt) ==
  /\ raster.todo = RasterPixels \/ raster.ctx
  /\ pointerPt' = pt
  /\ sample' = sampleAtCanvasXY(pt)
  /\ call' = [fn |-> "sampleAtCanvas", pt |-> pt]
  /\ UNCHANGED <<palette, locked, lockPt, raster, nextId, nOps, arg, ret>>

WheelColorAtCall(pt) ==
  /\ raster.ctx
  /\ call' = [fn |-> "wheelColorAt", pt |-> pt]
  /\ ret' = wheelColorAtXY(pt)
  /\ UNCHANGED <<palette, sample, locked, lockPt, pointerPt, raster, nextId, nOps, arg>>

IsInsideWheelCall(pt) ==
  /\ raster.ctx
  /\ call' = [fn |-> "isInsideWheel", pt |-> pt]
  /\ ret' = isInsideWheel(pt)
  /\ UNCHANGED <<palette, sample, locked, lockPt, pointerPt, raster, nextId, nOps, arg>>

NextRaster ==
  \/ \E p \in RasterPixels : RenderStep(p)
  \/ PutImageData
  \/ \E pt \in ProbeXY : ProbeAt(pt)
  \/ \E pt \in WheelPoints : WheelColorAtCall(pt)
  \/ \E pt \in WheelPoints : IsInsideWheelCall(pt)

SpecRaster == InitRaster /\ [][NextRaster]_vars

(***************************************************************************)
(* Properties of the palette (checked under Spec).                         *)
(***************************************************************************)
\* the hex strings a and b are equal when compared case-insensitively
SameHex(a, b) == toLowerCase(a) = toLowerCase(b)

\* the last call was addToPalette with a sample, or addTintToPalette (no
\* palette operation changes the sample, so it is still the one it read)
IsAdd ==
  \/ call.fn = "addToPalette" /\ sample # Null
  \/ call.fn = "addTintToPalette"

\* the hex of the colour that call added
AddedHex == IF call.fn = "addToPalette" THEN sample.hex ELSE call.tint.hex

\* the last call was addHarmonyToPalette with a sample inside the wheel
IsHarmony ==
  /\ call.fn = "addHarmonyToPalette"
  /\ sample # Null
  /\ sample.inside

\* C1: in every reachable state the palette holds at most 24 swatches.
C1_AtMost24 == Len(palette) <= 24

\* an "Add sample" on a full palette has just put a new swatch in front and
\* dropped the oldest: 24 consecutive ids, the newest just issued, the first
\* one gone
C1_Witness ==
  /\ call.fn = "addToPalette"
  /\ Len(palette) = 24
  /\ palette[1].id = nextId - 1
  /\ \A i \in 1..23 : palette[i].id = palette[i + 1].id + 1
  /\ palette[24].id > 1

\* C2: in every reachable state no two swatches of the palette have hex
\* strings that are equal when compared case-insensitively.
C2_NoDuplicateHex ==
  Cardinality({toLowerCase(palette[i].hex) : i \in 1..Len(palette)}) = Len(palette)

\* addTintToPalette was just called with an upper-case hex whose lower-case
\* spelling is in the palette
C2_Witness ==
  /\ call.fn = "addTintToPalette"
  /\ call.tint.hex # toLowerCase(call.tint.hex)
  /\ \E i \in 1..Len(palette) : palette[i].hex = toLowerCase(call.tint.hex)

\* C3: when the palette holds 24 swatches and addToPalette or
\* addTintToPalette is called with a colour whose hex matches none of them,
\* the new swatch becomes entry 0, the previous entries 0..22 become entries
\* 1..23 in the same order, and the previous last entry is dropped.
C3_AddAtCapacity ==
  (/\ IsAdd
   /\ Len(call.prev) = 24
   /\ \A i \in 1..24 : ~SameHex(call.prev[i].hex, AddedHex))
  => (/\ Len(palette) = 24
      /\ palette[1].hex = AddedHex
      /\ palette[1].id = nextId - 1
      /\ \A i \in 1..23 : palette[i + 1] = call.prev[i]
      /\ \A i \in 1..24 : palette[i] # call.prev[24])

\* addTintToPalette has just put a tint in front of a full palette
C3_Witness ==
  /\ call.fn = "addTintToPalette"
  /\ Len(palette) = 24
  /\ palette[1].hex = call.tint.hex
  /\ palette[1].id = nextId - 1
  /\ \A i \in 2..23 : palette[i].id = palette[i + 1].id + 1
  /\ palette[24].id > 1

\* C4: addToPalette or addTintToPalette called with a colour whose hex
\* already occurs in the palette, compared case-insensitively, leaves the
\* palette exactly unchanged, also when the palette holds 24 swatches.
C4_DuplicateAddIsNoOp ==
  (/\ IsAdd
   /\ \E i \in 1..Len(call.prev) : SameHex(call.prev[i].hex, AddedHex))
  => palette = call.prev

\* "Add sample" was just pressed on a full palette that already holds the
\* sample's hex, and no swatch with the id issued for it is in the palette
C4_Witness ==
  /\ call.fn = "addToPalette"
  /\ sample # Null
  /\ Len(palette) = 24
  /\ \E i \in 1..24 : palette[i].hex = sample.hex
  /\ \A i \in 1..24 : palette[i].id < nextId - 1

\* the indices of merged whose hex occurs at no earlier index
FirstOccurrences(merged) ==
  {i \in 1..Len(merged) :
     \A j \in 1..(i - 1) : ~SameHex(merged[j].hex, merged[i].hex)}

\* result is merged without the entries that are no first occurrence, cut
\* to its first 24 entries
IsDedupedPrefix(result, merged) ==
  LET keep == FirstOccurrences(merged)
      rank == [i \in 1..Len(merged) |-> Cardinality({j \in keep : j <= i})]
  IN  /\ Len(result) = Min(24, Cardinality(keep))
      /\ \A i \in keep : rank[i] <= 24 => result[rank[i]] = merged[i]

\* the swatches new are those of the harmony angles items, in their order,
\* each with the hex of the bitmap at its angle and the radius r
IsHarmonyOf(new, items, r) ==
  /\ Len(new) = Len(items)
  /\ \A k \in 1..Len(new) :
       LET c == readOffRgb(items[k].a, r)
       IN  new[k].hex = rgbToHex(c.r, c.g, c.b)

\* in result no swatch older than firstNew shares a hex with a swatch of
\* new, and of two swatches of new with equal hex the later is absent
IsReplacedAndOnce(result, new, firstNew) ==
  /\ result[1] = new[1]
  /\ \A i \in 1..Len(result) : \A k \in 1..Len(new) :
       SameHex(result[i].hex, new[k].hex) => result[i].id >= firstNew
  /\ \A k, m \in 1..Len(new) :
       (k < m /\ SameHex(new[k].hex, new[m].hex))
         => \A i \in 1..Len(result) : result[i] # new[m]

\* C5: addHarmonyToPalette with a sample inside the wheel yields the first
\* 24 entries of the sequence (harmony swatches in harmony order, then the
\* previous palette) after removing every entry whose hex already occurred
\* earlier in that sequence; a previous swatch sharing a hex with a harmony
\* colour is replaced by the new harmony swatch, and harmony colours with
\* equal hex are kept once.
C5_HarmonyMerge ==
  IsHarmony =>
    LET items    == harmonyAngles(sample.theta, call.type)
        firstNew == nextId - Len(items)
        new      == HarmonySwatches(sample, call.type, firstNew)
    IN  /\ IsHarmonyOf(new, items, sample.r)
        /\ IsDedupedPrefix(palette, new \o call.prev)
        /\ IsReplacedAndOnce(palette, new, firstNew)

\* "Add harmony" has just put three new swatches in front of a full palette,
\* which lost its oldest entries
C5_Witness ==
  /\ call.fn = "addHarmonyToPalette"
  /\ sample # Null
  /\ sample.inside
  /\ Len(harmonyAngles(sample.theta, call.type)) = 3
  /\ Len(palette) = 24
  /\ \A k \in 1..3 : palette[k].id = nextId - 4 + k
  /\ palette[4].id = nextId - 4
  /\ palette[24].id > 1

\* C6: removeSwatch(id) deletes the swatch with that id when it is in the
\* palette and leaves every other swatch in its relative order; when no
\* swatch has that id the palette is unchanged.
C6_RemoveSwatch ==
  call.fn = "removeSwatch" =>
    IF \E i \in 1..Len(call.prev) : call.prev[i].id = call.id
    THEN \E i \in 1..Len(call.prev) :
           /\ call.prev[i].id = call.id
           /\ palette = SubSeq(call.prev, 1, i - 1)
                          \o SubSeq(call.prev, i + 1, Len(call.prev))
    ELSE palette = call.prev

\* removeSwatch has just deleted a swatch between two that remain
C6_Witness ==
  /\ call.fn = "removeSwatch"
  /\ Len(palette) >= 2
  /\ \A i \in 1..Len(palette) : palette[i].id # call.id
  /\ palette[1].id > call.id
  /\ palette[Len(palette)].id < call.id

\* the decimal digits of i, zero-padded to two
TwoDigits(i) ==
  LET d == <<"0", "1", "2", "3", "4", "5", "6", "7", "8", "9">>
  IN  <<d[(i \div 10) + 1], d[(i % 10) + 1]>>

\* C7: the exported CSS is the empty string exactly when the palette is
\* empty; otherwise it has one custom-property line per swatch, and for a
\* palette of n swatches the line numbered i (1-based, two digits) carries
\* the hex and name of palette entry n-i (0-based).
C7_ExportCss ==
  LET n == Len(palette)
  IN  /\ (paletteCss = <<>>) <=> (n = 0)
      /\ n > 0 =>
           paletteCss =
             [k \in 1..(n + 3) |->
                IF k = 1 THEN <<":root">>
                ELSE IF k = 2 THEN <<"{">>
                ELSE IF k = n + 3 THEN <<"}">>
                ELSE LET i == k - 2
                     IN  <<"  --swatch-">> \o TwoDigits(i) \o <<": ">>
                           \o palette[n - i + 1].hex
                           \o <<"; /* ">> \o palette[n - i + 1].name \o <<" */">>]

\* a palette operation has left a palette whose lines need two digits
C7_Witness ==
  /\ call.fn \in {"addToPalette", "addHarmonyToPalette", "addTintToPalette", "removeSwatch"}
  /\ Len(palette) >= 10
  /\ Len(paletteCss) = Len(palette) + 3

(***************************************************************************)
(* Properties of the angle algebra (checked under SpecMath).               *)
(***************************************************************************)
\* the table of the harmony kinds: labels and offsets from the base hue
HarmonyTable(type) ==
  CASE type = "Complementary" ->
         <<[label |-> "Base", off |-> 0], [label |-> "Comp", off |-> 180]>>
    [] type = "Split Complementary" ->
         <<[label |-> "Base", off |-> 0], [label |-> "Split-1", off |-> 150],
           [label |-> "Split-2", off |-> 210]>>
    [] type = "Analogous" ->
         <<[label |-> "Ana-1", off |-> -30], [label |-> "Base", off |-> 0],
           [label |-> "Ana-2", off |-> 30]>>
    [] type = "Triadic" ->
         <<[label |-> "Tri-1", off |-> 0], [label |-> "Tri-2", off |-> 120],
           [label |-> "Tri-3", off |-> 240]>>
    [] type = "Tetradic" ->
         <<[label |-> "Tet-1", off |-> 0], [label |-> "Tet-2", off |-> 60],
           [label |-> "Tet-3", off |-> 180], [label |-> "Tet-4", off |-> 240]>>

\* C8: for every base hue t and every harmony kind, harmonyAngles returns
\* the labels and angles of the table in exactly the table's order, each
\* angle taken modulo 360.
C8_HarmonyTable ==
  call.fn = "harmonyAngles" =>
    LET tbl == HarmonyTable(call.type)
    IN  /\ Len(ret) = Len(tbl)
        /\ \A k \in 1..Len(tbl) :
             /\ ret[k].label = tbl[k].label
             /\ ret[k].a = (arg + tbl[k].off) % 360

\* harmonyAngles(300, 'Tetradic') has wrapped around
C8_Witness ==
  /\ call.fn = "harmonyAngles"
  /\ call.type = "Tetradic"
  /\ arg = 300
  /\ ret[2].a = 0
  /\ ret[4].a = 180

\* C9: for every base hue, negative or larger than 360, and every harmony
\* kind, every angle returned by harmonyAngles (the base entry included)
\* lies in [0,360), and harmonyAngles(t + 360k, kind) = harmonyAngles(t, kind).
C9_HarmonyNormalized ==
  call.fn = "harmonyAngles" =>
    /\ \A k \in 1..Len(ret) : ret[k].a >= 0 /\ ret[k].a < 360
    /\ \A turns \in (-MaxTurns)..MaxTurns :
         harmonyAngles(arg + 360 * turns, call.type) = ret

\* harmonyAngles(-390, 'Analogous') is that of 330: 300, 330, 0
C9_Witness ==
  /\ call.fn = "harmonyAngles"
  /\ call.type = "Analogous"
  /\ arg = -390
  /\ ret[1].a = 300
  /\ ret[2].a = 330
  /\ ret[3].a = 0

\* C10: degNorm(d) lies in [0,360) and differs from d by a multiple of 360;
\* degNorm(-1) = 359, degNorm(-360) = 0, degNorm(720) = 0, degNorm(450) = 90,
\* and degNorm(degNorm(d)) = degNorm(d).
C10_DegNorm ==
  call.fn = "degNorm" =>
    /\ ret >= 0 /\ ret < 360
    /\ \E q \in (-(MaxTheta \div 360) - 1)..((MaxTheta \div 360) + 1) : arg - ret = 360 * q
    /\ degNorm(ret) = ret
    /\ (arg = -1 => ret = 359)
    /\ (arg = -360 => ret = 0)
    /\ (arg = 720 => ret = 0)
    /\ (arg = 450 => ret = 90)

\* degNorm(-1) has returned 359
C10_Witness ==
  /\ call.fn = "degNorm"
  /\ arg = -1
  /\ ret = 359

\* the angle of the last hueName or temperatureLabel call, in quarters of a
\* degree, reduced to [0, 360)
T4 == (4 * arg + call.q) % (4 * 360)

\* C11: for every angle theta, hueName(theta) is entry
\* floor((degNorm(theta) + 11.25) / 22.5) mod 16 of the 16-name list that
\* starts at Red; the index is always in 0..15, so a name is always returned,
\* angles in [348.75, 360) give Red, and hueName(theta + 360k) = hueName(theta).
C11_HueName ==
  call.fn = "hueName" =>
    /\ \E k \in 0..15 :
         /\ ret = HUE_NAMES[k + 1]
         /\ \/ 90 * k - 45 <= T4 /\ T4 < 90 * k + 45
            \/ k = 0 /\ T4 >= 4 * 360 - 45
    /\ (T4 >= 1395 => ret = "Red")
    /\ \A turns \in (-MaxTurns)..MaxTurns :
         hueNameQ(4 * arg + call.q + 4 * 360 * turns) = ret
    /\ (arg \in {0, 360} /\ call.q = 0 => ret = "Red")
    /\ (arg = 450 /\ call.q = 0 => ret = "Yellow")
    /\ (arg = -30 /\ call.q = 0 => ret = "Rose")

\* hueName(-11.25) = hueName(348.75) has returned Red
C11_Witness ==
  /\ call.fn = "hueName"
  /\ arg = -12
  /\ call.q = 3
  /\ ret = "Red"

\* C12: with t = degNorm(theta), temperatureLabel returns Warm when
\* (t >= 315 or t < 120) and not (75 <= t < 105), otherwise Cool when
\* 150 <= t < 285, otherwise Neutral; exactly one of the three labels is
\* returned for every angle.
C12_TemperatureLabel ==
  call.fn = "temperatureLabel" =>
    /\ ret \in {"Warm", "Cool", "Neutral"}
    /\ ret = "Warm" <=> (T4 < 4 * 75 \/ (4 * 105 <= T4 /\ T4 < 4 * 120) \/ T4 >= 4 * 315)
    /\ ret = "Cool" <=> (4 * 150 <= T4 /\ T4 < 4 * 285)

\* temperatureLabel(-240) = temperatureLabel(120) has returned Neutral
C12_Witness ==
  /\ call.fn = "temperatureLabel"
  /\ arg = -240
  /\ call.q = 0
  /\ ret = "Neutral"

\* C13 as stated: temperatureLabel returns Neutral for every hue in the
\* 105-120 gap, in the 285-315 gap and in the 75-105 warm exclusion.
C13_NeutralBandsAsStated ==
  (/\ call.fn = "temperatureLabel"
   /\ \/ 4 * 105 <= T4 /\ T4 < 4 * 120
      \/ 4 * 285 <= T4 /\ T4 < 4 * 315
      \/ 4 * 75 <= T4 /\ T4 < 4 * 105)
  => ret = "Neutral"

\* C13 as amended: temperatureLabel returns Neutral for every hue in the
\* 120-150 gap, in the 285-315 gap and in the 75-105 warm exclusion, and for
\* no other hue.
C13_NeutralBands ==
  call.fn = "temperatureLabel" =>
    (ret = "Neutral" <=>
       \/ 4 * 120 <= T4 /\ T4 < 4 * 150
       \/ 4 * 285 <= T4 /\ T4 < 4 * 315
       \/ 4 * 75 <= T4 /\ T4 < 4 * 105)

\* temperatureLabel(149.75) has returned Neutral
C13_Witness ==
  /\ call.fn = "temperatureLabel"
  /\ arg = 149
  /\ call.q = 3
  /\ ret = "Neutral"

(***************************************************************************)
(* Properties of the tint ladder, the mixer and the colour conversions     *)
(* (checked under SpecColor).                                              *)
(***************************************************************************)
\* the colour argument of the last call
ArgRgb == [r |-> arg.r, g |-> arg.g, b |-> arg.b]

\* the step of the ladder labelled kind i, mixing base towards target at i / (half + 1)
LadderStep(kind, i, half, base, target) ==
  LET rgb == mixLinearRGB(base, target, [n |-> i, d |-> half + 1])
  IN  [label |-> <<kind, <<"1", "2", "3", "4", "5">>[i]>>,
       rgb   |-> rgb,
       hex   |-> rgbToHex(rgb.r, rgb.g, rgb.b)]

\* C14: for a sample and a step count clamped to [3,11] with
\* half = floor(steps / 2), the tint ladder is, in order: Tint half down to
\* Tint 1, where Tint i mixes base towards white at fraction i / (half + 1);
\* then Base, whose RGB and hex are the sample's unmodified; then Shade 1 up
\* to Shade half, where Shade i mixes base towards black at fraction
\* i / (half + 1); every mix uses the linear-space mixer.  With no sample the
\* ladder is empty.
C14_TintLadder ==
  call.fn = "tints" =>
    IF sample = Null THEN ret = <<>>
    ELSE
      LET steps == IF arg.steps < 3 THEN 3 ELSE IF arg.steps > 11 THEN 11 ELSE arg.steps
          half  == steps \div 2
      IN  /\ Len(ret) = 2 * half + 1
          /\ \A i \in 1..half :
               /\ ret[half + 1 - i] = LadderStep("Tint ", i, half, sample.rgb, White)
               /\ ret[half + 1 + i] = LadderStep("Shade ", i, half, sample.rgb, Black)
          /\ ret[half + 1] = [label |-> <<"Base">>, rgb |-> sample.rgb, hex |-> sample.hex]

\* the ladder of 11 steps of a sample inside the wheel, requested with 13
\* steps: lightest tint first, darkest shade last, neither white nor black
C14_Witness ==
  /\ call.fn = "tints"
  /\ sample # Null
  /\ sample.inside
  /\ arg.steps = 13
  /\ Len(ret) = 11
  /\ ret[1].label = <<"Tint ", "5">>
  /\ ret[1].rgb # White
  /\ ret[6].hex = sample.hex
  /\ ret[11].label = <<"Shade ", "5">>
  /\ ret[11].rgb # Black

\* C15: for all 8-bit RGB colours a and b, mixLinearRGB(a, b, 0) = a and
\* mixLinearRGB(a, b, 1) = b channel for channel, i.e. decoding an 8-bit
\* channel to linear and re-encoding it returns the same 8-bit value.
C15_MixEndpoints ==
  call.fn = "mixLinearRGB" =>
    /\ (call.t = [n |-> 0, d |-> 1] => ret = ArgRgb)
    /\ (call.t = [n |-> 1, d |-> 1] => ret = call.b)
    /\ linearToSrgb(srgbToLinear(arg.r)) = arg.r
    /\ linearToSrgb(srgbToLinear(arg.g)) = arg.g
    /\ linearToSrgb(srgbToLinear(arg.b)) = arg.b

\* mixLinearRGB(a, b, 1) has returned b for two colours that differ in every
\* channel
C15_Witness ==
  /\ call.fn = "mixLinearRGB"
  /\ call.t = [n |-> 1, d |-> 1]
  /\ call.b = [r |-> 18, g |-> 52, b |-> 86]
  /\ arg.r = 254 /\ arg.g = 1 /\ arg.b = 255
  /\ ret = call.b

\* C16: for every RGB triple with integer channels in 0..255, hslToRgb
\* applied to the result of rgbToHsl reproduces the original within +-1 on
\* each channel.
C16_HslRoundTrip ==
  call.fn = "hslToRgb(rgbToHsl)" =>
    /\ Abs(ret.r - arg.r) <= 1
    /\ Abs(ret.g - arg.g) <= 1
    /\ Abs(ret.b - arg.b) <= 1

\* the round trip of a colour whose largest channel is green and whose
\* channels all differ
C16_Witness ==
  /\ call.fn = "hslToRgb(rgbToHsl)"
  /\ arg.r = 1 /\ arg.g = 254 /\ arg.b = 0
  /\ ret = ArgRgb

\* C17: for every hue h (any sign or magnitude) and every s, l in [0,1],
\* hslToRgb returns three integer channels each in [0,255];
\* hslToRgb(h,0,0) = (0,0,0) and hslToRgb(h,0,1) = (255,255,255) for any h,
\* and the hues 0, 60, 120, 180, 240, 300 at s = 1, l = 0.5 give red, yellow,
\* green, cyan, blue, magenta exactly.
C17_HslToRgb ==
  call.fn = "hslToRgb" =>
    /\ ret.r \in 0..255 /\ ret.g \in 0..255 /\ ret.b \in 0..255
    /\ (arg.s = 0 /\ arg.l = 0 => ret = Black)
    /\ (arg.s = 0 /\ arg.l = 100 => ret = White)
    /\ (arg.s = 100 /\ arg.l = 50 =>
          /\ (arg.h = 0   => ret = [r |-> 255, g |-> 0,   b |-> 0])
          /\ (arg.h = 60  => ret = [r |-> 255, g |-> 255, b |-> 0])
          /\ (arg.h = 120 => ret = [r |-> 0,   g |-> 255, b |-> 0])
          /\ (arg.h = 180 => ret = [r |-> 0,   g |-> 255, b |-> 255])
          /\ (arg.h = 240 => ret = [r |-> 0,   g |-> 0,   b |-> 255])
          /\ (arg.h = 300 => ret = [r |-> 255, g |-> 0,   b |-> 255]))

\* hslToRgb(-30, 1, 0.5): the blue channel, negative before the clamp, is 0
C17_Witness ==
  /\ call.fn = "hslToRgb"
  /\ arg.h = -30 /\ arg.s = 100 /\ arg.l = 50
  /\ ret = [r |-> 255, g |-> 0, b |-> 0]

\* C18: for every RGB triple with integer channels in 0..255: when the three
\* channels are equal, rgbToHsl and rgbToHsv return hue 0 and saturation 0
\* and rgbToHwb returns hue 0; for every triple the hue returned by rgbToHsl,
\* rgbToHsv and rgbToHwb is the same value and lies in [0,360).
C18_Hue ==
  call.fn = "rgbToHsl, rgbToHsv, rgbToHwb" =>
    /\ (arg.r = arg.g /\ arg.g = arg.b =>
          /\ ret.hsl.h = Num(0) /\ ret.hsl.s = Num(0)
          /\ ret.hsv.h = Num(0) /\ ret.hsv.s = Num(0)
          /\ ret.hwb.h = Num(0))
    /\ ret.hsl.h = ret.hsv.h
    /\ ret.hsv.h = ret.hwb.h
    /\ FLeq(Num(0), ret.hsl.h)
    /\ FLess(ret.hsl.h, Num(360))

\* the hue of a colour between magenta and red, wrapped from a negative
\* value: (255, 0, 1) has hue 360 - 60 / 255
C18_Witness ==
  /\ call.fn = "rgbToHsl, rgbToHsv, rgbToHwb"
  /\ arg.r = 255 /\ arg.g = 0 /\ arg.b = 1
  /\ ret.hsv.h = Frac(360 * 255 - 60, 255)
  /\ ret.hwb.h = ret.hsv.h

\* C19: for every RGB triple with integer channels in 0..255, rgbToCmyk
\* returns k = 1 if and only if the triple is (0,0,0), and in that case
\* c = m = y = 0 exactly; for every other triple all four components lie in
\* [0,1] and no division by zero occurs.
C19_Cmyk ==
  call.fn = "rgbToCmyk" =>
    /\ ret.k = Num(1) <=> ArgRgb = Black
    /\ (ArgRgb = Black => ret.c = Num(0) /\ ret.m = Num(0) /\ ret.y = Num(0))
    /\ \A x \in {ret.c, ret.m, ret.y, ret.k} :
         IsFinite(x) /\ FLeq(Num(0), x) /\ FLeq(x, Num(1))
    /\ (ArgRgb # Black => Max(arg.r, Max(arg.g, arg.b)) # 0)

\* rgbToCmyk(0, 0, 0) has returned c = m = y = 0, k = 1
C19_Witness ==
  /\ call.fn = "rgbToCmyk"
  /\ ArgRgb = Black
  /\ ret = [c |-> Num(0), m |-> Num(0), y |-> Num(0), k |-> Num(1)]

\* C20: for all luminances L1, L2 in [0,1],
\* contrastRatio(L1, L2) = contrastRatio(L2, L1), the result is at least 1
\* and at most 21, contrastRatio(x, x) = 1 for every x, and
\* contrastRatio(1, 0) = 21.
C20_ContrastRatio ==
  call.fn = "contrastRatio" =>
    /\ contrastRatio(arg.L2, arg.L1) = ret
    /\ FLeq(Num(1), ret)
    /\ FLeq(ret, Num(21))
    /\ (arg.L1 = arg.L2 => ret = Num(1))
    /\ (arg.L1 = Num(1) /\ arg.L2 = Num(0) => ret = Num(21))

\* contrastRatio(0, 1) has returned 21
C20_Witness ==
  /\ call.fn = "contrastRatio"
  /\ arg.L1 = Num(0)
  /\ arg.L2 = Num(1)
  /\ ret = Num(21)

\* C21: probing pure black (0,0,0) raises no error and yields a Sample whose
\* xyY.x, xyY.y, u', v' and CCT are NaN while xyY.Y is 0; cctMcCamyFromXy
\* returns NaN whenever x or y is not finite without evaluating the cubic;
\* and for every 8-bit RGB other than black the chromaticities x, y, u', v'
\* are finite.
C21_BlackProbe ==
  /\ call.fn = "sampleAnalysis" =>
        IF ArgRgb = Black
        THEN /\ ret.xyY.x = NaN /\ ret.xyY.y = NaN /\ ret.xyY.Y = 0
             /\ ret.uvp.u = NaN /\ ret.uvp.v = NaN
             /\ ret.cct = NaN
        ELSE /\ IsFinite(ret.xyY.x) /\ IsFinite(ret.xyY.y)
             /\ IsFinite(ret.uvp.u) /\ IsFinite(ret.uvp.v)
  /\ call.fn = "cctMcCamyFromXy" =>
        (~IsFinite(arg.x) \/ ~IsFinite(arg.y) => ret = NaN)

\* the analysis of pure black has returned NaN chromaticities, NaN CCT and
\* Y = 0
C21_Witness ==
  /\ call.fn = "sampleAnalysis"
  /\ ArgRgb = Black
  /\ ret.xyz = [X |-> 0, Y |-> 0, Z |-> 0]
  /\ ret.xyY = [x |-> NaN, y |-> NaN, Y |-> 0]
  /\ ret.uvp = [u |-> NaN, v |-> NaN]
  /\ ret.cct = NaN

\* C25: for every requested step count, the tint ladder of a sample has an
\* odd number of entries between 3 and 11, equal to
\* 2*floor(clamp(steps,3,11)/2)+1; for an odd request within [3,11] the
\* ladder has exactly the requested number of entries, and the labels within
\* one ladder are pairwise distinct.
C25_TintCount ==
  call.fn = "tints" /\ sample # Null =>
    /\ Len(ret) % 2 = 1
    /\ Len(ret) >= 3 /\ Len(ret) <= 11
    /\ Len(ret) = 2 * (Max(3, Min(11, arg.steps)) \div 2) + 1
    /\ (arg.steps % 2 = 1 /\ arg.steps >= 3 /\ arg.steps <= 11 => Len(ret) = arg.steps)
    /\ \A i, j \in DOMAIN ret : ret[i].label = ret[j].label => i = j

\* a request above the range: 13 steps asked of a sample, 11 entries made
C25_Witness ==
  /\ call.fn = "tints"
  /\ sample # Null
  /\ arg.steps = 13
  /\ Len(ret) = 11
  /\ ret[1].label = <<"Tint ", "5">>
  /\ ret[11].label = <<"Shade ", "5">>

\* C29: every hue-family label drawn on the wheel names the family that
\* hueName returns for the angle it is drawn at: for each entry of
\* HUE_LABELS, hueName(entry.angle) equals entry.text.
C29_HueLabels ==
  call.fn = "hueName" /\ call.q = 0 =>
    \A i \in DOMAIN HUE_LABELS :
      HUE_LABELS[i].angle = arg => ret = HUE_LABELS[i].text

(***************************************************************************)
(* Properties of the bitmap and of the probe (checked under SpecRaster).   *)
(***************************************************************************)
\* the point p is off the band: its radius is below R_inner or above R_color
OffBand(p) ==
  \/ RadiusSq(p) < Px(MODEL.R_inner) * Px(MODEL.R_inner)
  \/ RadiusSq(p) > Px(MODEL.R_color) * Px(MODEL.R_color)

\* the four bytes of pixel p in img.data
PixelBytes(p) ==
  LET idx == PixelIndex(p[1], p[2])
  IN  <<raster.data[idx], raster.data[idx + 1], raster.data[idx + 2], raster.data[idx + 3]>>

\* C22: for every probe point inside the raster, the RGB reported in the
\* Sample is the value the bitmap synthesis gave to the pixel that contains
\* the probed point, so it equals the radial profile recomputed analytically
\* for that pixel's centre (or white when that centre is outside the band).
C22_ProbeReadsOwnPixel ==
  call.fn = "sampleAtCanvas" /\ sample # Null =>
    LET v == RenderPixel(MathFloor(call.pt.x), MathFloor(call.pt.y))
    IN  sample.rgb = [r |-> v[1], g |-> v[2], b |-> v[3]]

\* C23: after renderWheelBitmap every pixel of the raster has alpha 255, and
\* a pixel is pure white (255,255,255,255) whenever its centre has a radius
\* below R_inner or above R_color; wheelColorAt returns null for exactly
\* those points, and both boundaries radius = R_inner and radius = R_color
\* count as inside, for isInsideWheel and for the Sample's inside flag alike.
C23_Band ==
  /\ raster.todo = {} =>
       \A p \in RasterPixels :
         /\ PixelBytes(p)[4] = 255
         /\ (OffBand(PixelCentre(p[1], p[2])) => PixelBytes(p) = <<255, 255, 255, 255>>)
  /\ (call.fn = "wheelColorAt" => (ret = Null <=> OffBand(call.pt)))
  /\ (call.fn = "isInsideWheel" => (ret <=> ~OffBand(call.pt)))
  /\ (sample # Null => (sample.inside <=> ~OffBand([x |-> sample.xOff, y |-> sample.yOff])))

\* a probe exactly on the outer boundary (radius R_color) counts as inside,
\* and isInsideWheel has said so of the same point
C23_Witness ==
  /\ raster.todo = {}
  /\ call.fn = "isInsideWheel"
  /\ call.pt = [x |-> Px(MODEL.cx + MODEL.R_color), y |-> Px(MODEL.cy)]
  /\ ret = TRUE
  /\ sample # Null
  /\ sample.xOff = call.pt.x
  /\ sample.inside

\* C24: the bitmap produced by the synthesis does not depend on the order
\* in which pixels are evaluated or on how they are split among workers:
\* each pixel index is written once with a value that is a function of that
\* pixel's coordinates only, so every interleaving of the per-pixel
\* evaluations ends in the same raster.
C24_OrderFree ==
  /\ \A p \in RasterPixels :
       PixelBytes(p) = IF p \in raster.todo THEN <<0, 0, 0, 0>> ELSE RenderPixel(p[1], p[2])
  /\ (raster.todo = {} => raster.data = RenderedRaster.data)

\* every pixel has been visited and the image put: the raster is the one
\* any other order ends in
C24_Witness ==
  /\ raster.todo = {}
  /\ raster.ctx
  /\ call.fn = "putImageData"
  /\ raster.data = RenderedRaster.data
  /\ PixelBytes(<<1503, MODEL.cy>>) = <<112, 225, 0, 255>>
  /\ PixelBytes(<<1504, MODEL.cy>>) = <<255, 255, 255, 255>>

\* the mirror image of the point p through the centre of the wheel: the
\* point at p's angle plus a half turn and at p's radius
Mirror(p) == [x |-> 2 * Px(MODEL.cx) - p.x, y |-> 2 * Px(MODEL.cy) - p.y]

\* C26: a Sample carries a Complement if and only if its inside flag is
\* true; the complement's angle is (theta+180) mod 360 and lies in [0,360),
\* its colour is read at the point with that angle and the sample's own
\* radius, so inside the raster bounds, and its dE76 is deltaE76 of the
\* sample's Lab and the complement's Lab.
C26_Complement ==
  sample # Null =>
    /\ sample.comp # Null <=> sample.inside
    /\ sample.comp # Null =>
         LET m == Mirror([x |-> sample.xOff, y |-> sample.yOff])
         IN  /\ sample.comp.theta = (sample.theta + 180) % 360
             /\ sample.comp.theta >= 0 /\ sample.comp.theta < 360
             /\ m.x >= 0 /\ m.x < Px(OFF_SIZE) /\ m.y >= 0 /\ m.y < Px(OFF_SIZE)
             /\ sampleAtCanvasXY(m) # Null
             /\ sample.comp.rgb = sampleAtCanvasXY(m).rgb
             /\ sample.comp.dE76 = deltaE76(sample.lab, sample.comp.lab)

\* a probe on the left of the centre, a pixel inside the outer edge: its
\* complement, at 90 degrees, is read a pixel inside the outer edge on the
\* right
C26_Witness ==
  /\ sample # Null
  /\ sample.xOff = Px(97)
  /\ sample.theta = 270
  /\ sample.inside
  /\ sample.comp # Null
  /\ sample.comp.theta = 90
  /\ sample.comp.rgb = [r |-> 112, g |-> 225, b |-> 0]
  /\ sample.rgb = [r |-> 113, g |-> 0, b |-> 226]

(***************************************************************************)
(* Properties of the lock (checked under SpecHook).                        *)
(***************************************************************************)
\* the operations that are palette operations, and those that are pointer,
\* keyboard or unlock events
PaletteOps ==
  {"addToPalette", "addHarmonyToPalette", "addTintToPalette", "removeSwatch",
   "clearPalette"}

PointerEvents == {"onPointerMove", "onPointerDown", "onKey", "unlock"}

\* C27: while the wheel is locked, the Sample stays the one taken at the
\* lock point: pointer-move events change neither the Sample nor the values
\* derived from it (tint ladder, what addToPalette and addHarmonyToPalette
\* add) until the wheel is unlocked.
C27_LockedSample ==
  locked => sample = sampleAtCanvas(lockPt)

\* C28: in every state reachable by pointer-down, pointer-move, Escape and
\* unlock events, locked is true if and only if a lock point is stored; a
\* pointer-down while unlocked locks at the event's point, a pointer-down
\* while locked unlocks, Escape and unlock always end unlocked, and the
\* state label is 'Locked' exactly when locked.
C28_Lock ==
  /\ locked <=> lockPt # Null
  /\ (call.fn = "onPointerDown" /\ ~call.locked => locked /\ lockPt = call.pt)
  /\ (call.fn = "onPointerDown" /\ call.locked => ~locked)
  /\ (call.fn = "onKey" /\ call.key = "Escape" => ~locked)
  /\ (call.fn = "unlock" => ~locked)
  /\ stateLabel = "Locked" <=> locked

\* a pointer-down on a locked wheel has unlocked it and cleared the lock
\* point
C28_Witness ==
  /\ call.fn = "onPointerDown"
  /\ call.locked
  /\ ~locked
  /\ lockPt = Null
  /\ stateLabel = "Hover (inside wheel)"

\* C30: addToPalette leaves the palette unchanged when there is no sample,
\* and addHarmonyToPalette leaves it unchanged when there is no sample or
\* the sample is outside the wheel band; no palette operation changes the
\* sample or the lock state, and no pointer, Escape or unlock event changes
\* the palette.
C30_Frame ==
  [][/\ (call'.fn = "addToPalette" /\ sample = Null => palette' = palette)
     /\ (call'.fn = "addHarmonyToPalette"
           /\ (IF sample = Null THEN TRUE ELSE ~sample.inside)
           => palette' = palette)
     /\ (call'.fn \in PaletteOps =>
           sample' = sample /\ locked' = locked /\ lockPt' = lockPt)
     /\ (call'.fn \in PointerEvents => palette' = palette)]_vars

\* addHarmonyToPalette has run on a locked wheel whose sample is outside
\* the band: the palette is the one it found, the wheel is still locked
C30_Witness ==
  /\ call.fn = "addHarmonyToPalette"
  /\ sample # Null
  /\ ~sample.inside
  /\ locked
  /\ lockPt # Null
  /\ palette = call.prev

====
